---- MODULE Spec2Model ----
(***************************************************************************)
(* Model of the ledmatrix-stocks rendering pipeline:                       *)
(*   StockDisplayRenderer (display_renderer.py): tile composition, strip   *)
(*   assembly, inline mini-chart;                                          *)
(*   StockChartRenderer (chart_renderer.py): mini-chart and full-screen    *)
(*   chart normalizers;                                                    *)
(*   StockConfigManager (config_manager.py) and StocksTickerPlugin         *)
(*   (manager.py): the display settings and the reported durations;        *)
(*   the scroll engine the renderer constructs (ScrollHelper).             *)
(*                                                                         *)
(* Prices are integers in units of 0.001 currency units, so the 0.01       *)
(* padding threshold of the inline chart is 10.  Python's int(a / b) on    *)
(* non-negative operands is \div.  Images are modelled by the geometry     *)
(* that was drawn on them.                                                 *)
(***************************************************************************)
EXTENDS Integers, Sequences, FiniteSets, TLC

VARIABLES
    display_width,      \* StockDisplayRenderer.display_width
    display_height,     \* StockDisplayRenderer.display_height
    config,             \* StockDisplayRenderer.config (the keys the renderer reads)
    toggle_chart,       \* StockDisplayRenderer.toggle_chart
    symbol_font,        \* pixel size of StockDisplayRenderer.symbol_font
    price_font,         \* pixel size of StockDisplayRenderer.price_font
    price_delta_font,   \* pixel size of StockDisplayRenderer.price_delta_font
    enabled,            \* argument of the most recent set_toggle_chart call
    op,                 \* name of the most recent call
    args,               \* arguments of the most recent call
    series,             \* the price history a chart specification charts
    tile,               \* image returned by the most recent create_stock_display
    static_image,       \* image returned by the most recent create_static_display
    strip,              \* image returned by the most recent create_scrolling_display
    chart,              \* what the most recent StockChartRenderer call drew
    config_manager,     \* attributes of the StockConfigManager
    plugin,             \* attributes of the StocksTickerPlugin
    scroll,             \* state of the scroll engine (ScrollHelper)
    presenter,          \* state of the static presenter
    data_fetcher,       \* attributes of the StockDataFetcher
    result              \* value returned by the most recent query

vars == <<display_width, display_height, config, toggle_chart, symbol_font,
          price_font, price_delta_font, enabled, op, args, series,
          tile, static_image, strip, chart, config_manager, plugin, scroll, presenter,
          data_fetcher, result>>

----------------------------------------------------------------------------
(* Bounds of the model *)

MaxHist == 3        \* longest price history
MaxEntities == 2    \* most entities in one strip

(* Values *)

Prices == {150000, 150005, 150010}

AAPL == <<"A", "A", "P", "L">>
BTCUSD == <<"B", "T", "C", "-", "U", "S", "D">>

\* dict.get(key, default)
Get(d, key, default) == IF key \in DOMAIN d THEN d[key] ELSE default

RECURSIVE SeqsUpTo(_, _)
SeqsUpTo(S, n) ==
    IF n = 0 THEN {<<>>}
    ELSE LET shorter == SeqsUpTo(S, n - 1)
         IN  shorter \cup {Append(s, x) : s \in {t \in shorter : Len(t) = n - 1}, x \in S}

\* A history point is a dict with a 'timestamp' and, usually, a 'price'.
Points == {[timestamp |-> 0, price |-> p] : p \in Prices} \cup {[timestamp |-> 0]}

Histories == SeqsUpTo(Points, MaxHist)

Range(s) == {s[i] : i \in DOMAIN s}

Min(S) == CHOOSE x \in S : \A y \in S : x <= y

Max(S) == CHOOSE x \in S : \A y \in S : x >= y

----------------------------------------------------------------------------
(* The chart normalizers *)

\* Mutant: no filter, a point without a price counts as price 0
ExtractPrices_NoFilter(price_history) ==
    [i \in 1..Len(price_history) |-> Get(price_history[i], "price", 0)]

\* [point['price'] for point in price_history if 'price' in point]
ExtractPrices(price_history) ==
    LET priced == SelectSeq(price_history, LAMBDA pt : "price" \in DOMAIN pt)
    IN  [i \in 1..Len(priced) |-> priced[i].price]

NoChart == [kind |-> "none", points |-> <<>>, box |-> <<>>, color |-> "", segments |-> 0]

\* Mutant: the price is not taken relative to min_price
ScaleY_NoOffset(price, min_price, price_range, chart_height, roundLow) ==
    (price * chart_height) \div price_range

\* int(((price - min_price) / price_range) * chart_height).  The quotient is a
\* float: when the exact product is a whole number strictly inside the box the
\* float product may fall just below it and truncate one lower (roundLow).
ScaleY(price, min_price, price_range, chart_height, roundLow) ==
    LET num == (price - min_price) * chart_height
        q == num \div price_range
    IN  IF roundLow /\ num % price_range = 0 /\ price > min_price
           /\ price - min_price < price_range
        THEN q - 1
        ELSE q

PriceEps == 10
PricePad == 10
PaddedRange == 20

\* The chart box of StockDisplayRenderer._draw_mini_chart as
\* <<chart_x, chart_y, chart_width, chart_height>>: int(width / 2.5) wide and
\* int(height / 1.5) high, 4 pixels from the right edge, centred vertically
MiniChartBox(width, height) ==
    LET chart_width == (2 * width) \div 5
        chart_height == (2 * height) \div 3
    IN  <<width - chart_width - 4, (height - chart_height) \div 2,
          chart_width, chart_height>>

\* StockDisplayRenderer._draw_mini_chart: the lines drawn on the tile
_draw_mini_chart(price_history, width, height, color, roundLow) ==
    IF Len(price_history) < 2 THEN NoChart
    ELSE
    LET box == MiniChartBox(width, height)
        chart_x == box[1]
        chart_y == box[2]
        chart_width == box[3]
        chart_height == box[4]
        prices == ExtractPrices(price_history)
        n == Len(prices)
    IN  IF n < 2 THEN NoChart
        ELSE
        LET lo == Min(Range(prices))
            hi == Max(Range(prices))
            padded == hi - lo < PriceEps
            min_price == IF padded THEN lo - PricePad ELSE lo
            price_range == IF padded THEN PaddedRange ELSE hi - lo
        IN  IF price_range = 0
            THEN LET y == chart_y + chart_height \div 2
                 IN  [kind |-> "hline",
                      points |-> <<<<chart_x, y>>, <<chart_x + chart_width, y>>>>,
                      box |-> box, color |-> color, segments |-> 1]
            ELSE [kind |-> "polyline",
                  points |-> [i \in 1..n |->
                      <<chart_x + ((i - 1) * chart_width) \div (n - 1),
                        chart_y + chart_height
                          - ScaleY(prices[i], min_price, price_range, chart_height, roundLow)>>],
                  box |-> box, color |-> color, segments |-> n - 1]

\* The shared body of the two StockChartRenderer normalizers: a flat series
\* is one horizontal line, any other a polyline through one point per price.
NormalizeChart(prices, chart_x, chart_y, chart_width, chart_height, flatColor, color, roundLow) ==
    LET n == Len(prices)
        min_price == Min(Range(prices))
        max_price == Max(Range(prices))
        price_range == max_price - min_price
        box == <<chart_x, chart_y, chart_width, chart_height>>
    IN  IF price_range = 0
        THEN LET y == chart_y + chart_height \div 2
             IN  [kind |-> "hline",
                  points |-> <<<<chart_x, y>>, <<chart_x + chart_width, y>>>>,
                  box |-> box, color |-> flatColor, segments |-> 1]
        ELSE [kind |-> "polyline",
              points |-> [i \in 1..n |->
                  <<chart_x + ((i - 1) * chart_width) \div (n - 1),
                    chart_y + chart_height
                      - ScaleY(prices[i], min_price, price_range, chart_height, roundLow)>>],
              box |-> box, color |-> color, segments |-> n - 1]

\* StockChartRenderer.draw_mini_chart: the lines drawn
draw_mini_chart(price_history, width, height, color, roundLow) ==
    IF Len(price_history) < 2 THEN NoChart
    ELSE
    LET chart_width == width \div 4
        chart_height == height - 4
        chart_x == width - chart_width - 2
        chart_y == 2
        prices == ExtractPrices(price_history)
    IN  IF Len(prices) < 2 THEN NoChart
        ELSE NormalizeChart(prices, chart_x, chart_y, chart_width, chart_height,
                            color, color, roundLow)

ChartMargin == 10

\* Mutant: the trend is taken from the last step of the series
TrendColor_LastStep(prices) ==
    IF prices[Len(prices)] < prices[Len(prices) - 1] THEN "line_negative" ELSE "line"

\* line_color: the key of chart_colors the price line is drawn with
TrendColor(prices) ==
    IF prices[Len(prices)] < prices[1] THEN "line_negative" ELSE "line"

\* StockChartRenderer._create_chart_image: the chart line drawn on the
\* full-screen image (NoChart when it returns None before drawing)
_create_chart_image(data, roundLow) ==
    LET price_history == data.price_history
    IN  IF Len(price_history) < 2 THEN NoChart
        ELSE
        LET prices == ExtractPrices(price_history)
            chart_width == display_width - ChartMargin * 2
            chart_height == display_height - ChartMargin * 2
        IN  IF Len(prices) < 2 THEN NoChart
            ELSE NormalizeChart(prices, ChartMargin, ChartMargin, chart_width, chart_height,
                                "line", TrendColor(prices), roundLow)

\* StockChartRenderer.draw_chart: the chart line of the image it creates
draw_chart(symbol, data, roundLow) ==
    IF "price_history" \notin DOMAIN data \/ Len(data.price_history) < 2
    THEN NoChart
    ELSE _create_chart_image(data, roundLow)

----------------------------------------------------------------------------
(* Text: strings are sequences of characters; a font is its pixel size.    *)
(* PIL's textbbox is taken for a fixed-pitch font: a text of k characters  *)
(* in a font of size f measures k * f wide and f high, an empty text 0.    *)

USDSuffix == <<"-", "U", "S", "D">>

\* str.replace('-USD', ''): every occurrence, left to right
RECURSIVE ReplaceUSD(_)
ReplaceUSD(s) ==
    IF Len(s) < Len(USDSuffix) THEN s
    ELSE IF SubSeq(s, 1, Len(USDSuffix)) = USDSuffix
         THEN ReplaceUSD(SubSeq(s, Len(USDSuffix) + 1, Len(s)))
         ELSE <<Head(s)>> \o ReplaceUSD(Tail(s))

DisplaySymbol(symbol, is_crypto) == IF is_crypto THEN ReplaceUSD(symbol) ELSE symbol

RECURSIVE NumDigits(_)
NumDigits(n) == IF n < 10 THEN 1 ELSE 1 + NumDigits(n \div 10)

Abs(x) == IF x < 0 THEN -x ELSE x

\* len(f"${price:.2f}"), price in hundredths
PriceTextLen(price) == 1 + NumDigits(price \div 100) + 3

\* len(f"{change:+.2f}"), change in hundredths
ChangeTextLen(change) == 1 + NumDigits(Abs(change) \div 100) + 3

\* len(f"({pct:+.1f}%)"), pct in tenths of a percent
PercentTextLen(tenths) == 2 + NumDigits(Abs(tenths) \div 10) + 2 + 2

\* change_parts: the parts of the delta line, each with its length
ChangeParts(data, is_crypto) ==
    LET flags == IF is_crypto THEN Get(config, "crypto", <<>>) ELSE config
        show_change == Get(flags, "show_change", TRUE)
        show_percentage == Get(flags, "show_percentage", TRUE)
        abs_part == IF show_change
                    THEN <<[part |-> "change", len |-> ChangeTextLen(data.change)]>>
                    ELSE <<>>
        pct_part ==
            IF ~show_percentage THEN <<>>
            ELSE IF "change_percent" \in DOMAIN data
                 THEN <<[part |-> "percent",
                         len |-> PercentTextLen((Abs(data.change_percent) + 5) \div 10)]>>
                 ELSE IF "open" \in DOMAIN data /\ data.open > 0
                      THEN <<[part |-> "percent",
                              len |-> PercentTextLen(
                                  (Abs(data.change) * 2000 + data.open) \div (2 * data.open))]>>
                      ELSE <<>>
    IN  abs_part \o pct_part

\* len(" ".join(change_parts))
JoinedLen(parts) ==
    IF Len(parts) = 0 THEN 0
    ELSE IF Len(parts) = 1 THEN parts[1].len
    ELSE parts[1].len + 1 + parts[2].len

\* _get_stock_logo: None (<<>>), or the side of the square logo image the
\* logo helper fitted into max_size
_get_stock_logo(found) ==
    IF found
    THEN <<Min({(display_width * 5) \div 6, (display_height * 5) \div 6})>>
    ELSE <<>>

\* width of the tile image
TileWidth == IF toggle_chart THEN display_width * 2 ELSE (display_width * 3) \div 2

\* Python's floor division
FloorDiv(a, b) == IF a >= 0 THEN a \div b ELSE -((-a + b - 1) \div b)

\* Mutant: the gap below the price line is counted even without a delta line
TotalTextHeight_ResidualGap(symbol_height, price_height, change_height, text_gap, has_change) ==
    symbol_height + price_height + change_height + (text_gap + text_gap)

\* total_text_height: the line heights and the gaps between the lines
TotalTextHeight(symbol_height, price_height, change_height, text_gap, has_change) ==
    LET change_gap == IF has_change THEN text_gap ELSE 0
    IN  symbol_height + price_height + change_height + (text_gap + change_gap)

\* Mutant: the free height is not halved
StartY_NoHalving(height, total_text_height) == height - total_text_height

\* start_y: the top of the text block
StartY(height, total_text_height) == FloorDiv(height - total_text_height, 2)

\* Mutant: the delta colour is always taken from the stock pair
ChangeColor_StockPair(change, is_crypto) ==
    IF change >= 0 THEN "positive_color" ELSE "negative_color"

\* change_color: the renderer attribute the delta line is filled with
ChangeColor(change, is_crypto) ==
    IF change >= 0
    THEN (IF ~is_crypto THEN "positive_color" ELSE "crypto_positive_color")
    ELSE (IF ~is_crypto THEN "negative_color" ELSE "crypto_negative_color")

\* The body of create_stock_display once the logo lookup has returned logo
\* (<<>> for None): the tile image
StockDisplayWithLogo(symbol, data, logo, roundLow) ==
    LET width == TileWidth
        height == display_height
        is_crypto == Get(data, "is_crypto", FALSE)
        logo_pos == IF logo # <<>> THEN <<2, FloorDiv(height - logo[1], 2)>> ELSE <<>>
        display_symbol == DisplaySymbol(symbol, is_crypto)
        change_parts == ChangeParts(data, is_crypto)
        change_text_len == JoinedLen(change_parts)
        change_color == ChangeColor(data.change, is_crypto)
        symbol_color == IF ~is_crypto THEN "symbol_text_color" ELSE "crypto_symbol_text_color"
        price_color == IF ~is_crypto THEN "price_text_color" ELSE "crypto_price_text_color"
        symbol_height == symbol_font
        price_height == price_font
        change_height == IF change_text_len > 0 THEN price_delta_font ELSE 0
        text_gap == IF toggle_chart THEN 2 ELSE 1
        total_text_height == TotalTextHeight(symbol_height, price_height, change_height,
                                             text_gap, change_text_len > 0)
        start_y == StartY(height, total_text_height)
        column_x == IF toggle_chart THEN (width * 20) \div 57 ELSE (width * 5) \div 11
        symbol_width == Len(display_symbol) * symbol_font
        symbol_x == column_x - symbol_width \div 2
        price_width == PriceTextLen(data.price) * price_font
        price_x == column_x - price_width \div 2
        price_y == start_y + symbol_height + text_gap
        change_width == change_text_len * price_delta_font
        change_x == column_x - change_width \div 2
        change_y == price_y + price_height + text_gap
    IN  [width |-> width, height |-> height,
         symbol |-> symbol,
         logo |-> logo_pos,
         display_symbol |-> display_symbol,
         column_x |-> column_x,
         symbol_pos |-> <<symbol_x, start_y>>,
         symbol_size |-> <<symbol_width, symbol_height>>,
         symbol_color |-> symbol_color,
         price_pos |-> <<price_x, price_y>>,
         price_size |-> <<price_width, price_height>>,
         price_color |-> price_color,
         change_parts |-> [i \in 1..Len(change_parts) |-> change_parts[i].part],
         change_pos |-> IF change_text_len > 0 THEN <<change_x, change_y>> ELSE <<>>,
         change_size |-> IF change_text_len > 0 THEN <<change_width, change_height>> ELSE <<>>,
         change_color |-> change_color,
         text_gap |-> text_gap,
         total_text_height |-> total_text_height,
         chart |-> IF toggle_chart /\ "price_history" \in DOMAIN data
                      /\ Len(data.price_history) >= 2
                   THEN _draw_mini_chart(data.price_history, width, height,
                                         change_color, roundLow)
                   ELSE NoChart]

\* Mutant: without a logo image no tile is composed
create_stock_display_NeedsLogo(symbol, data, found, roundLow) ==
    IF found
    THEN StockDisplayWithLogo(symbol, data, _get_stock_logo(found), roundLow)
    ELSE <<>>

\* StockDisplayRenderer.create_stock_display: the tile it returns
create_stock_display(symbol, data, found, roundLow) ==
    StockDisplayWithLogo(symbol, data, _get_stock_logo(found), roundLow)

\* StockDisplayRenderer.create_static_display: the display-sized image it
\* returns, its three lines at the fixed rows 5, 15 and 25
create_static_display(symbol, data, found) ==
    LET is_crypto == Get(data, "is_crypto", FALSE)
        logo == _get_stock_logo(found)
        logo_pos == IF logo # <<>> THEN <<5, FloorDiv(display_height - logo[1], 2)>> ELSE <<>>
        display_symbol == DisplaySymbol(symbol, is_crypto)
        change_parts == ChangeParts(data, is_crypto)
        change_text_len == JoinedLen(change_parts)
        change_color == ChangeColor(data.change, is_crypto)
        symbol_color == IF ~is_crypto THEN "symbol_text_color" ELSE "crypto_symbol_text_color"
        price_color == IF ~is_crypto THEN "price_text_color" ELSE "crypto_price_text_color"
        center_x == display_width \div 2
        symbol_width == Len(display_symbol) * symbol_font
        price_width == PriceTextLen(data.price) * price_font
        change_width == change_text_len * price_delta_font
    IN  [width |-> display_width, height |-> display_height,
         symbol |-> symbol,
         logo |-> logo_pos,
         display_symbol |-> display_symbol,
         column_x |-> center_x,
         symbol_pos |-> <<center_x - symbol_width \div 2, 5>>,
         symbol_color |-> symbol_color,
         price_pos |-> <<center_x - price_width \div 2, 15>>,
         price_color |-> price_color,
         change_parts |-> [i \in 1..Len(change_parts) |-> change_parts[i].part],
         change_pos |-> IF change_text_len > 0
                        THEN <<center_x - change_width \div 2, 25>> ELSE <<>>,
         change_color |-> change_color,
         chart |-> NoChart]

----------------------------------------------------------------------------
(* Strip assembly *)

\* StockDisplayRenderer._create_error_display: the 'No Data Available' frame
_create_error_display ==
    LET text_width == 17 * symbol_font
        text_height == symbol_font
    IN  [kind |-> "error", width |-> display_width, height |-> display_height,
         pastes |-> <<>>,
         text_pos |-> <<FloorDiv(display_width - text_width, 2),
                        FloorDiv(display_height - text_height, 2)>>]

\* Mutant: no extra gap between stocks
RECURSIVE PasteX_NoStockGap(_, _)
PasteX_NoStockGap(stock_displays, i) ==
    IF i = 1 THEN display_width
    ELSE PasteX_NoStockGap(stock_displays, i - 1) + stock_displays[i - 1].width
         + display_width \div 8

\* current_x when tile i (1-based) is pasted
RECURSIVE PasteX(_, _)
PasteX(stock_displays, i) ==
    IF i = 1 THEN display_width
    ELSE PasteX(stock_displays, i - 1) + stock_displays[i - 1].width
         + display_width \div 8 + display_width \div 6

RECURSIVE SumWidths(_)
SumWidths(stock_displays) ==
    IF stock_displays = <<>> THEN 0
    ELSE Head(stock_displays).width + SumWidths(Tail(stock_displays))

\* Mutant: the width formula for tiles that are all two displays wide
TotalWidth_FixedTiles(stock_displays) ==
    LET n == Len(stock_displays)
    IN  display_width * 2 * n + (display_width \div 6) * (n - 1)
        + (display_width \div 8) * (n * 2 - 1)

\* total_width of the scrolling image
TotalWidth(stock_displays) ==
    LET stock_gap == display_width \div 6
        element_gap == display_width \div 8
        n == Len(stock_displays)
    IN  SumWidths(stock_displays) + stock_gap * (n - 1) + element_gap * (n * 2 - 1)

\* The scrolling image of a collection: every tile composed and pasted.
\* all_data is the ordered mapping as its sequence of (symbol, data) items;
\* logos is the set of symbols the logo lookup finds an image for.
ScrollingImage(all_data, logos, roundLow) ==
    LET stock_displays == [i \in 1..Len(all_data) |->
            create_stock_display(all_data[i].symbol, all_data[i].data,
                                 all_data[i].symbol \in logos, roundLow)]
    IN  [kind |-> "strip",
         width |-> TotalWidth(stock_displays),
         height |-> display_height,
         pastes |-> [i \in 1..Len(stock_displays) |->
                        [x |-> PasteX(stock_displays, i), y |-> 0,
                         tile |-> stock_displays[i]]],
         text_pos |-> <<>>]

\* Mutant: no check for an empty collection
create_scrolling_display_Unchecked(all_data, logos, roundLow) ==
    ScrollingImage(all_data, logos, roundLow)

\* StockDisplayRenderer.create_scrolling_display: the image it returns
create_scrolling_display(all_data, logos, roundLow) ==
    IF Len(all_data) = 0 THEN _create_error_display
    ELSE ScrollingImage(all_data, logos, roundLow)

----------------------------------------------------------------------------
(* Settings: StockConfigManager and the plugin's own display settings.      *)
(* scroll_speed is in tenths of a pixel per frame, scroll_delay in          *)
(* milliseconds, durations in tenths of a second, duration_buffer in        *)
(* percent.                                                                 *)

\* max(lo, min(hi, x))
Clamp(x, lo, hi) == IF x > hi THEN hi ELSE IF x < lo THEN lo ELSE x

\* int(x) of a duration: the whole seconds
IntSeconds(x) == (x \div 10) * 10

\* max(0.5, min(5.0, speed))
ScrollSpeed(speed) == Clamp(speed, 5, 50)

\* A key of a configuration dict holds a value of the wrong type (a string
\* where a number is expected, a number where a dict or a list is): such a
\* key is listed under 'mistyped' and has no field of its own
Mistyped(d, key) == key \in Get(d, "mistyped", {})

\* Colours are lists of three components, each in tenths
White == <<2550, 2550, 2550>>
Green == <<0, 2550, 0>>
Red == <<2550, 0, 0>>
Gold == <<2550, 2150, 0>>

\* int(float(c)): the whole part, towards zero
IntFloat(c) == IF c >= 0 THEN (c \div 10) * 10 ELSE -(((-c) \div 10) * 10)

\* [int(float(c)) for c in color]
IntColor(color) == [i \in DOMAIN color |-> IntFloat(color[i])]

DefaultFormat == "{symbol}: ${price} ({change}%)"

\* The symbols tracked when none are configured
DefaultStockSymbols ==
    <<(<<"A", "S", "T", "S">>), (<<"S", "C", "H", "D">>), (<<"I", "N", "T", "C">>),
      (<<"N", "V", "D", "A">>), (<<"T">>), (<<"V", "O", "O">>), (<<"S", "M", "C", "I">>)>>

DefaultCryptoSymbols == <<(<<"B", "T", "C", "-", "U", "S", "D">>),
                          (<<"E", "T", "H", "-", "U", "S", "D">>)>>

\* StockConfigManager._init_attributes: every attribute at its default.
\* update_interval is in seconds, timeout in seconds, rate_limit_delay in
\* milliseconds.
_init_attributes(plugin_config) ==
    [plugin_config |-> plugin_config,
     enabled |-> TRUE,
     display_duration |-> 300,
     scroll_speed |-> 10,
     scroll_delay |-> 20,
     enable_scrolling |-> TRUE,
     toggle_chart |-> FALSE,
     dynamic_duration |-> TRUE,
     min_duration |-> 300,
     max_duration |-> 3000,
     duration_buffer |-> 10,
     update_interval |-> 600,
     text_color |-> White,
     positive_color |-> Green,
     negative_color |-> Red,
     show_change |-> TRUE,
     show_percentage |-> TRUE,
     show_volume |-> FALSE,
     show_market_cap |-> FALSE,
     stock_display_format |-> DefaultFormat,
     crypto_text_color |-> Gold,
     crypto_positive_color |-> Green,
     crypto_negative_color |-> Red,
     crypto_show_change |-> TRUE,
     crypto_show_percentage |-> TRUE,
     crypto_display_format |-> DefaultFormat,
     stock_symbols |-> <<>>,
     stocks_enabled |-> TRUE,
     crypto_symbols |-> <<>>,
     crypto_update_interval |-> 600,
     api_config |-> <<>>,
     timeout |-> 10,
     retry_count |-> 3,
     rate_limit_delay |-> 100]

\* StockConfigManager._set_defaults
_set_defaults(self) ==
    [self EXCEPT !.enabled = TRUE, !.display_duration = 300, !.scroll_speed = 10,
                 !.scroll_delay = 20, !.enable_scrolling = TRUE,
                 !.toggle_chart = FALSE, !.dynamic_duration = TRUE,
                 !.min_duration = 300, !.max_duration = 3000,
                 !.duration_buffer = 10, !.update_interval = 600,
                 !.text_color = White, !.positive_color = Green,
                 !.negative_color = Red, !.show_change = TRUE,
                 !.show_percentage = TRUE, !.stock_display_format = DefaultFormat,
                 !.crypto_text_color = Gold, !.crypto_positive_color = Green,
                 !.crypto_negative_color = Red, !.crypto_show_change = TRUE,
                 !.crypto_show_percentage = TRUE,
                 !.crypto_display_format = DefaultFormat, !.stock_symbols = <<>>,
                 !.stocks_enabled = TRUE, !.crypto_symbols = <<>>,
                 !.crypto_update_interval = 600, !.api_config = <<>>,
                 !.timeout = 10, !.retry_count = 3, !.rate_limit_delay = 100]

\* The nested 'display' section is there and not empty
NestedDisplay(plugin_config) == DOMAIN Get(plugin_config, "display", <<>>) # {}

\* The dict the seven display settings are read from
DisplaySource(plugin_config) ==
    IF NestedDisplay(plugin_config) THEN plugin_config.display ELSE plugin_config

\* _load_config, basic settings
LoadBasic(self) ==
    [self EXCEPT !.enabled = Get(self.plugin_config, "enabled", TRUE),
                 !.display_duration = Get(self.plugin_config, "display_duration", 300),
                 !.update_interval = Get(self.plugin_config, "update_interval", 600)]

\* display_config is not a dict: its get raises AttributeError
DisplayRaises(plugin_config) == Mistyped(plugin_config, "display")

\* Mutant: max_duration is read from the top level in either shape
LoadDisplay_MixedShapes(self) ==
    LET from == DisplaySource(self.plugin_config)
    IN  [self EXCEPT
            !.scroll_speed = IF Mistyped(from, "scroll_speed")
                             THEN self.scroll_speed
                             ELSE Get(from, "scroll_speed", 10),
            !.scroll_delay = Get(from, "scroll_delay", 20),
            !.toggle_chart = Get(from, "toggle_chart", NestedDisplay(self.plugin_config)),
            !.dynamic_duration = Get(from, "dynamic_duration", TRUE),
            !.min_duration = Get(from, "min_duration", 300),
            !.max_duration = Get(self.plugin_config, "max_duration", 3000),
            !.duration_buffer = Get(from, "duration_buffer", 10)]

\* _load_config, display settings: all seven from the 'display' section if
\* there is a non-empty one, else all seven from the top level.  (A
\* scroll_speed that is not a number is stored as it is and makes the clamp
\* raise; the attribute is left as it was here.)
LoadDisplay(self) ==
    LET from == DisplaySource(self.plugin_config)
    IN  [self EXCEPT
            !.scroll_speed = IF Mistyped(from, "scroll_speed")
                             THEN self.scroll_speed
                             ELSE Get(from, "scroll_speed", 10),
            !.scroll_delay = Get(from, "scroll_delay", 20),
            !.toggle_chart = Get(from, "toggle_chart", NestedDisplay(self.plugin_config)),
            !.dynamic_duration = Get(from, "dynamic_duration", TRUE),
            !.min_duration = Get(from, "min_duration", 300),
            !.max_duration = Get(from, "max_duration", 3000),
            !.duration_buffer = Get(from, "duration_buffer", 10)]

\* min(5.0, scroll_speed) raises TypeError
ClampRaises(plugin_config) == Mistyped(DisplaySource(plugin_config), "scroll_speed")

\* _load_config, the clamp of scroll_speed, and enable_scrolling
LoadScrolling(self) ==
    [self EXCEPT !.scroll_speed = ScrollSpeed(self.scroll_speed),
                 !.enable_scrolling = Get(self.plugin_config, "enable_scrolling", TRUE)]

\* stocks_config is not a dict
StocksRaises(plugin_config) == Mistyped(plugin_config, "stocks")

\* _load_config, stock configuration
LoadStocks(self) ==
    LET stocks_config == Get(self.plugin_config, "stocks", <<>>)
        stocks_enabled == Get(stocks_config, "enabled", TRUE)
    IN  [self EXCEPT
            !.stocks_enabled = stocks_enabled,
            !.stock_symbols =
                IF ~stocks_enabled THEN <<>>
                ELSE IF "symbols" \in DOMAIN stocks_config THEN stocks_config.symbols
                ELSE Get(self.plugin_config, "symbols", DefaultStockSymbols),
            !.stock_display_format =
                IF stocks_enabled THEN Get(stocks_config, "display_format", DefaultFormat)
                ELSE DefaultFormat]

\* '-USD' in s
ContainsUSD(s) ==
    \E i \in 1..(Len(s) - Len(USDSuffix) + 1) :
        SubSeq(s, i, i + Len(USDSuffix) - 1) = USDSuffix

\* _load_config, crypto configuration
LoadCrypto(self) ==
    LET crypto_config == Get(self.plugin_config, "crypto", <<>>)
        old_symbols == Get(crypto_config, "crypto_symbols", DefaultCryptoSymbols)
    IN  IF Get(crypto_config, "enabled", FALSE)
        THEN [self EXCEPT
                !.crypto_symbols =
                    IF "symbols" \in DOMAIN crypto_config THEN crypto_config.symbols
                    ELSE [i \in DOMAIN old_symbols |->
                            IF ContainsUSD(old_symbols[i]) THEN old_symbols[i]
                            ELSE old_symbols[i] \o USDSuffix],
                !.crypto_display_format = Get(crypto_config, "display_format", DefaultFormat),
                !.crypto_update_interval =
                    Get(crypto_config, "update_interval", self.update_interval)]
        ELSE [self EXCEPT !.crypto_symbols = <<>>,
                          !.crypto_display_format = DefaultFormat,
                          !.crypto_update_interval = self.update_interval]

\* The dict the stock colours are read from: customization.stocks if it is
\* not empty, else the top level
StockColorSource(plugin_config) ==
    LET stocks_custom == Get(Get(plugin_config, "customization", <<>>), "stocks", <<>>)
    IN  IF DOMAIN stocks_custom # {} THEN stocks_custom ELSE plugin_config

\* The dict the crypto colours are read from: customization.crypto if it is
\* not empty, else the 'crypto' object
CryptoColorSource(plugin_config) ==
    LET crypto_custom == Get(Get(plugin_config, "customization", <<>>), "crypto", <<>>)
    IN  IF DOMAIN crypto_custom # {} THEN crypto_custom
        ELSE Get(plugin_config, "crypto", <<>>)

\* The stock text colour is not a list of numbers: float(c) or the
\* iteration raises
ColorsRaises(plugin_config) == Mistyped(StockColorSource(plugin_config), "text_color")

\* _load_config, customization
LoadColors(self) ==
    LET stocks == StockColorSource(self.plugin_config)
        crypto == CryptoColorSource(self.plugin_config)
    IN  [self EXCEPT
            !.text_color = IntColor(Get(stocks, "text_color", White)),
            !.positive_color = IntColor(Get(stocks, "positive_color", Green)),
            !.negative_color = IntColor(Get(stocks, "negative_color", Red)),
            !.crypto_text_color = IntColor(Get(crypto, "text_color", Gold)),
            !.crypto_positive_color = IntColor(Get(crypto, "positive_color", Green)),
            !.crypto_negative_color = IntColor(Get(crypto, "negative_color", Red))]

\* _load_config, API configuration
LoadApi(self) ==
    LET api_config == Get(self.plugin_config, "api", <<>>)
    IN  [self EXCEPT !.api_config = api_config,
                     !.timeout = Get(api_config, "timeout", 10),
                     !.retry_count = Get(api_config, "retry_count", 3),
                     !.rate_limit_delay = Get(api_config, "rate_limit_delay", 100)]

\* Some statement of the try block of _load_config raises
LoadRaises(plugin_config) ==
    \/ DisplayRaises(plugin_config)
    \/ ClampRaises(plugin_config)
    \/ StocksRaises(plugin_config)
    \/ ColorsRaises(plugin_config)

\* The attributes as the try block of _load_config leaves them: at its end,
\* or at the statement that raises
LoadTry(self) ==
    LET basic == LoadBasic(self)
        shown == LoadDisplay(basic)
        scrolling == LoadScrolling(shown)
        tracked == LoadCrypto(LoadStocks(scrolling))
    IN  IF DisplayRaises(self.plugin_config) THEN basic
        ELSE IF ClampRaises(self.plugin_config) THEN shown
        ELSE IF StocksRaises(self.plugin_config) THEN scrolling
        ELSE IF ColorsRaises(self.plugin_config) THEN tracked
        ELSE LoadApi(LoadColors(tracked))

\* Mutant: an exception leaves the attributes assigned so far
_load_config_KeepsPartial(self) == LoadTry(self)

\* StockConfigManager._load_config: any exception sets the defaults
_load_config(self) ==
    IF LoadRaises(self.plugin_config) THEN _set_defaults(LoadTry(self)) ELSE LoadTry(self)

\* StockConfigManager.__init__
StockConfigManager(plugin_config) == _load_config(_init_attributes(plugin_config))

\* StockConfigManager.reload_config: the loader again, on the configuration
\* dict as it is now
reload_config(self) == _load_config(self)

\* Mutant: the speed is stored as given
set_scroll_speed_Unclamped(self, speed) == [self EXCEPT !.scroll_speed = speed]

\* StockConfigManager.set_scroll_speed
set_scroll_speed(self, speed) == [self EXCEPT !.scroll_speed = Clamp(speed, 5, 50)]

\* StockConfigManager.set_scroll_delay: max(0.001, min(1.0, delay))
set_scroll_delay(self, delay) == [self EXCEPT !.scroll_delay = Clamp(delay, 1, 1000)]

\* StockConfigManager.set_toggle_chart
set_toggle_chart(self, chart_enabled) == [self EXCEPT !.toggle_chart = chart_enabled]

\* The text colours of an asset class as StockDisplayRenderer.__init__
\* resolves them: from the 'symbol' and 'price' elements of its customization
\* if the symbol element has a text_color, else from the shared text_color of
\* the fallback dict
RendererTextColors(custom, fallback, default) ==
    LET symbol == Get(custom, "symbol", <<>>)
    IN  IF DOMAIN symbol # {} /\ "text_color" \in DOMAIN symbol
        THEN [symbol |-> Get(symbol, "text_color", default),
              price |-> Get(Get(custom, "price", <<>>), "text_color", default)]
        ELSE [symbol |-> Get(fallback, "text_color", default),
              price |-> Get(fallback, "text_color", default)]

\* The delta colours of an asset class as StockDisplayRenderer.__init__
\* resolves them: from the 'price_delta' element if it is not empty, else
\* from the fallback dict
RendererDeltaColors(custom, fallback) ==
    LET price_delta_custom == Get(custom, "price_delta", <<>>)
        from == IF DOMAIN price_delta_custom # {} THEN price_delta_custom ELSE fallback
    IN  [positive |-> Get(from, "positive_color", Green),
         negative |-> Get(from, "negative_color", Red)]

\* StockDisplayRenderer.__init__: the colour attributes
RendererColors(renderer_config) ==
    LET customization == Get(renderer_config, "customization", <<>>)
        stocks_custom == Get(customization, "stocks", <<>>)
        crypto_custom == Get(customization, "crypto", <<>>)
        stocks_text == RendererTextColors(stocks_custom, renderer_config, White)
        stocks_delta == RendererDeltaColors(stocks_custom, renderer_config)
        crypto_text == RendererTextColors(crypto_custom, crypto_custom, Gold)
        crypto_delta == RendererDeltaColors(crypto_custom, crypto_custom)
    IN  [symbol_text_color |-> stocks_text.symbol,
         price_text_color |-> stocks_text.price,
         positive_color |-> stocks_delta.positive,
         negative_color |-> stocks_delta.negative,
         crypto_symbol_text_color |-> crypto_text.symbol,
         crypto_price_text_color |-> crypto_text.price,
         crypto_positive_color |-> crypto_delta.positive,
         crypto_negative_color |-> crypto_delta.negative]

\* StockConfigManager.get_dynamic_duration
get_dynamic_duration ==
    IF config_manager.dynamic_duration
    THEN IntSeconds(config_manager.min_duration)
    ELSE IntSeconds(config_manager.display_duration)

\* StocksTickerPlugin.__init__: the display settings, from the 'global_' keys,
\* and the state.  config is the configuration the plugin was constructed
\* with.  Collections are sequences of quotes in insertion order; now (the
\* wall clock, in minutes), pc (the statement update() is at) and cache (the
\* entries of the cache manager) are not attributes of the plugin but are
\* kept with them.
StocksTickerPlugin(plugin_config) ==
    [display_duration |-> Get(plugin_config, "global_display_duration", 300),
     dynamic_duration |-> Get(plugin_config, "global_dynamic_duration", TRUE),
     min_duration |-> Get(plugin_config, "global_min_duration", 300),
     max_duration |-> Get(plugin_config, "global_max_duration", 3000),
     font_size |-> Get(plugin_config, "global_font_size", 10),
     config |-> plugin_config,
     stock_data |-> <<>>,
     crypto_data |-> <<>>,
     current_stock_index |-> 0,
     scroll_position |-> 0,
     last_update |-> 0,
     chart_mode |-> FALSE,
     initialized |-> TRUE,
     now |-> 1,
     pc |-> "idle",
     cache |-> <<>>]

\* StocksTickerPlugin.get_display_duration
get_display_duration == plugin.display_duration

\* The names bound at module level of manager.py: its imports, its logger and
\* its class.  Looking up any other global name raises NameError.
ManagerGlobals == {"logging", "time", "requests", "json", "datetime", "timezone",
                   "Dict", "Any", "Optional", "List", "Path", "BasePlugin",
                   "logger", "StocksTickerPlugin"}

\* Mutant: every global name is bound
LookupGlobal_Bound(name) == TRUE

\* The lookup of a global name in manager.py succeeds
LookupGlobal(name) == name \in ManagerGlobals

\* int(config.get('global_update_interval', 60)), in seconds
UpdateInterval(p) == Get(p.config, "global_update_interval", 60)

\* cache_manager.get(cache_key): the key carries the minute, so only an entry
\* of the current minute is found
CacheGet(p, kind) ==
    IF kind \in DOMAIN p.cache /\ p.cache[kind].minute = p.now
    THEN p.cache[kind].data
    ELSE <<>>

\* cache_manager.set(cache_key, data, ...)
CacheSet(p, kind, data) ==
    [k \in DOMAIN p.cache \cup {kind} |->
        IF k = kind THEN [minute |-> p.now, data |-> data] ELSE p.cache[k]]

\* The placeholder quote of a stock symbol, h standing for hash(symbol)
MockStock(p, symbol, h) ==
    [symbol |-> symbol,
     data |-> [symbol |-> symbol, price |-> (100 + (h % 200)) * 100,
               change |-> ((h % 20) - 10) * 100,
               change_percent |-> ((h % 10) - 5) * 100, last_updated |-> p.now]]

\* The placeholder quote of a crypto symbol
MockCrypto(p, symbol, h) ==
    [symbol |-> symbol,
     data |-> [symbol |-> symbol, price |-> (1000 + (h % 50000)) * 100,
               change |-> ((h % 1000) - 500) * 100,
               change_percent |-> ((h % 20) - 10) * 100, last_updated |-> p.now]]

\* The cached collection is used: it is non-empty and the last update is
\* less than the update interval ago
UseCached(p, cached_data) ==
    cached_data # <<>> /\ (p.now - p.last_update) * 60 < UpdateInterval(p)

\* StocksTickerPlugin._fetch_stock_data: the collection it returns and the
\* cache it leaves
_fetch_stock_data(p, h) ==
    LET cached_data == CacheGet(p, "stocks_data")
        stock_symbols == Get(p.config, "stocks_symbols", <<>>)
        stock_data == [i \in DOMAIN stock_symbols |-> MockStock(p, stock_symbols[i], h)]
    IN  IF UseCached(p, cached_data)
        THEN [data |-> cached_data, cache |-> p.cache]
        ELSE [data |-> stock_data, cache |-> CacheSet(p, "stocks_data", stock_data)]

\* StocksTickerPlugin._fetch_crypto_data
_fetch_crypto_data(p, h) ==
    LET cached_data == CacheGet(p, "crypto_data")
        crypto_symbols == Get(p.config, "crypto_crypto_symbols", <<>>)
        crypto_data == [i \in DOMAIN crypto_symbols |-> MockCrypto(p, crypto_symbols[i], h)]
    IN  IF UseCached(p, cached_data)
        THEN [data |-> cached_data, cache |-> p.cache]
        ELSE [data |-> crypto_data, cache |-> CacheSet(p, "crypto_data", crypto_data)]

\* StocksTickerPlugin.update, entered: the clock has advanced by d minutes
\* since the last event; an uninitialized plugin returns at once
update_call(p, d) ==
    [p EXCEPT !.now = p.now + d,
              !.pc = IF p.initialized THEN "stocks" ELSE "idle"]

\* StocksTickerPlugin.update, one statement further.  Both conditions read
\* the global name config; an exception anywhere in the try block is logged
\* and nothing more is done.
update_step(p, h) ==
    CASE p.pc = "stocks" ->
            IF ~LookupGlobal("config")
            THEN [p EXCEPT !.pc = "except"]
            ELSE IF Get(p.config, "stocks_symbols", <<>>) # <<>>
            THEN LET fetched == _fetch_stock_data(p, h)
                 IN  [p EXCEPT !.stock_data = fetched.data, !.cache = fetched.cache,
                               !.pc = "crypto"]
            ELSE [p EXCEPT !.pc = "crypto"]
      [] p.pc = "crypto" ->
            IF ~LookupGlobal("config")
            THEN [p EXCEPT !.pc = "except"]
            ELSE IF Get(p.config, "crypto_enabled", TRUE)
                    /\ Get(p.config, "crypto_crypto_symbols", <<>>) # <<>>
            THEN LET fetched == _fetch_crypto_data(p, h)
                 IN  [p EXCEPT !.crypto_data = fetched.data, !.cache = fetched.cache,
                               !.pc = "stamp"]
            ELSE [p EXCEPT !.pc = "stamp"]
      [] p.pc = "stamp" -> [p EXCEPT !.last_update = p.now, !.pc = "idle"]
      [] OTHER -> [p EXCEPT !.pc = "idle"]

\* What a call of display() leaves: a frame on the display, or an exception
NameError == [raised |-> "NameError"]

\* StocksTickerPlugin._display_no_data
_display_no_data ==
    IF LookupGlobal("Image") THEN [text |-> "No Stock Data"] ELSE NameError

\* StocksTickerPlugin._display_error
_display_error(message) ==
    IF LookupGlobal("Image") THEN [text |-> message] ELSE NameError

\* Row k of the placeholder ticker starts at y_offset = 5 + k * (font_size + 5)
\* and is drawn unless y_offset > matrix_height - 15
RowFits(p, k) == 5 + k * (p.font_size + 5) <= display_height - 15

\* How many of the first two quotes of a collection are drawn, below the
\* rows already drawn
RowsDrawn(p, collection, above) ==
    Cardinality({k \in 1..Min({2, Len(collection)}) : RowFits(p, above + k - 1)})

\* StocksTickerPlugin._display_scrolling_ticker: up to two stocks, then up to
\* two crypto quotes; any exception shows the error frame
_display_scrolling_ticker(p) ==
    LET stocks == RowsDrawn(p, p.stock_data, 0)
        crypto == RowsDrawn(p, p.crypto_data, stocks)
    IN  IF LookupGlobal("Image") /\ (stocks + crypto = 0 \/ LookupGlobal("config"))
        THEN [text |-> "ticker",
              stocks |-> SubSeq(p.stock_data, 1, stocks),
              crypto |-> SubSeq(p.crypto_data, 1, crypto)]
        ELSE _display_error("Display error")

\* StocksTickerPlugin.display: what it leaves, and the collections it read
display(p) ==
    IF ~p.initialized
    THEN [outcome |-> _display_error("Stocks ticker plugin not initialized"),
          stocks |-> <<>>, crypto |-> <<>>]
    ELSE [outcome |-> IF p.stock_data = <<>> /\ p.crypto_data = <<>>
                      THEN _display_no_data
                      ELSE _display_scrolling_ticker(p),
          stocks |-> p.stock_data, crypto |-> p.crypto_data]

\* StocksTickerPlugin.cleanup
cleanup(p) == [p EXCEPT !.stock_data = <<>>, !.crypto_data = <<>>]

----------------------------------------------------------------------------
(* The data fetcher: StockDataFetcher.  Prices of a response are in          *)
(* thousandths; the quote it builds has price and change in hundredths and   *)
(* change_percent in hundredths of a percent.  None is the empty tuple; an   *)
(* exception that leaves a method is the record [raised |-> its name].       *)

None == <<>>

Raised(exception) == [raised |-> exception]

IsRaised(value) == "raised" \in DOMAIN value

\* round(n / d, 0) for d > 0; a tie falls to either side with the binary
\* representation of the float (roundLow)
RoundDiv(n, d, roundLow) ==
    LET q == n \div d
        r == n % d
    IN  IF 2 * r < d \/ (2 * r = d /\ roundLow) THEN q ELSE q + 1

\* StockDataFetcher.__init__: the symbols of the configuration manager and
\* the background service, which is "none" if there is none, "no_submit" if
\* it has no submit method, "submit" if it has
StockDataFetcher(manager, service) ==
    [stock_symbols |-> manager.stock_symbols,
     crypto_symbols |-> manager.crypto_symbols,
     background_service |-> service]

\* The price history of a chart result: one point per timestamp that has a
\* close (a close is <<c>>, or <<>> for null)
PriceHistory(chart_result) ==
    IF "timestamp" \in DOMAIN chart_result /\ "indicators" \in DOMAIN chart_result
    THEN LET timestamps == chart_result.timestamp
             quotes == Get(chart_result.indicators, "quote", <<(<<>>)>>)[1]
             closes == Get(quotes, "close", <<>>)
             kept == SelectSeq([i \in 1..Len(timestamps) |-> i],
                               LAMBDA i : i <= Len(closes) /\ closes[i] # <<>>)
         IN  [k \in 1..Len(kept) |->
                [timestamp |-> timestamps[kept[k]], price |-> closes[kept[k]][1]]]
    ELSE <<>>

\* (change / previous_close * 100) if previous_close > 0 else 0, rounded to
\* two places
ChangePercent(change, previous_close, roundLow) ==
    IF previous_close > 0 THEN RoundDiv(change * 10000, previous_close, roundLow) ELSE 0

\* StockDataFetcher._fetch_direct.  The response either raises (in the
\* request, in raise_for_status or in json()) or has a body; every exception
\* in the try block is logged and None returned.  last_updated is left out.
_fetch_direct(api_symbol, display_symbol, is_crypto, response, roundLow) ==
    IF "raises" \in DOMAIN response
    THEN CASE response.raises = "RequestException" -> None
           [] response.raises \in {"KeyError", "ValueError", "TypeError"} -> None
           [] OTHER -> None
    ELSE LET data == response.body
         IN  IF "chart" \notin DOMAIN data THEN None
             ELSE IF "result" \notin DOMAIN data.chart THEN None
             ELSE IF data.chart.result = <<>> THEN None
             ELSE LET chart_result == data.chart.result[1]
                      meta == Get(chart_result, "meta", <<>>)
                      current_price == Get(meta, "regularMarketPrice", 0)
                      previous_close == Get(meta, "previousClose", 0)
                      change == current_price - previous_close
                  IN  [symbol |-> display_symbol,
                       price |-> RoundDiv(current_price, 10, roundLow),
                       change |-> RoundDiv(change, 10, roundLow),
                       change_percent |-> ChangePercent(change, previous_close, roundLow),
                       is_crypto |-> is_crypto,
                       price_history |-> PriceHistory(chart_result)]

\* What submit() of a background service returned when it returned something
\* else than the result of the task
TaskHandle == [request_id |-> 1]

\* Mutant: an exception of submit leaves the method
_fetch_via_background_service_NoFallback(api_symbol, display_symbol, is_crypto, submit, response, roundLow) ==
    CASE submit = "raise" -> Raised("RuntimeError")
      [] submit = "run" ->
            _fetch_direct(api_symbol, display_symbol, is_crypto, response, roundLow)
      [] OTHER -> TaskHandle

\* StockDataFetcher._fetch_via_background_service: submit raises, runs the
\* task and returns its result, or returns something else; what it returns is
\* returned, and if it raises the data is fetched directly
_fetch_via_background_service(api_symbol, display_symbol, is_crypto, submit, response, roundLow) ==
    CASE submit = "raise" ->
            _fetch_direct(api_symbol, display_symbol, is_crypto, response, roundLow)
      [] submit = "run" ->
            _fetch_direct(api_symbol, display_symbol, is_crypto, response, roundLow)
      [] OTHER -> TaskHandle

\* StockDataFetcher.fetch_stock_data; env is what the call meets: the
\* behaviour of submit, the response of the API and the side ties round to
fetch_stock_data(self, symbol, is_crypto, env) ==
    LET api_symbol == symbol
        display_symbol == IF is_crypto THEN ReplaceUSD(symbol) ELSE symbol
    IN  IF self.background_service = "submit"
        THEN _fetch_via_background_service(api_symbol, display_symbol, is_crypto,
                                           env.submit, env.response, env.roundLow)
        ELSE _fetch_direct(api_symbol, display_symbol, is_crypto,
                           env.response, env.roundLow)

\* symbol.endswith('-USD')
EndsWithUSD(symbol) ==
    /\ Len(symbol) >= Len(USDSuffix)
    /\ SubSeq(symbol, Len(symbol) - Len(USDSuffix) + 1, Len(symbol)) = USDSuffix

\* The symbol a crypto symbol is fetched under
ApiSymbol(symbol) == IF EndsWithUSD(symbol) THEN symbol ELSE symbol \o USDSuffix

\* all_data[symbol] = data: a new key is appended, a known key keeps its place
DictSet(all_data, symbol, data) ==
    IF \E i \in DOMAIN all_data : all_data[i].symbol = symbol
    THEN [i \in DOMAIN all_data |->
            IF all_data[i].symbol = symbol THEN [symbol |-> symbol, data |-> data]
            ELSE all_data[i]]
    ELSE Append(all_data, [symbol |-> symbol, data |-> data])

\* What one call of fetch_stock_data in fetch_all_data comes to: an
\* exception (env.raises), or what it returns
Fetched(self, symbol, is_crypto, env) ==
    IF env.raises THEN Raised("Exception")
    ELSE fetch_stock_data(self, IF is_crypto THEN ApiSymbol(symbol) ELSE symbol,
                          is_crypto, env)

\* Mutant: a failure empties the collection
StoreFetched_DropsOnFailure(all_data, symbol, fetched) ==
    IF IsRaised(fetched) \/ fetched = None THEN <<>>
    ELSE DictSet(all_data, symbol, fetched)

\* One round of a loop of fetch_all_data: data is stored under the
\* configured symbol; no data is logged, and so is an exception
StoreFetched(all_data, symbol, fetched) ==
    IF IsRaised(fetched) \/ fetched = None THEN all_data
    ELSE DictSet(all_data, symbol, fetched)

\* The loops of fetch_all_data, from call i on: first the stock symbols, then
\* the crypto symbols; envs[i] is what call i meets
RECURSIVE FetchLoop(_, _, _, _)
FetchLoop(self, envs, i, all_data) ==
    LET stocks == Len(self.stock_symbols)
        is_crypto == i > stocks
        symbol == IF is_crypto THEN self.crypto_symbols[i - stocks]
                  ELSE self.stock_symbols[i]
    IN  IF i > stocks + Len(self.crypto_symbols) THEN all_data
        ELSE FetchLoop(self, envs, i + 1,
                       StoreFetched(all_data, symbol,
                                    Fetched(self, symbol, is_crypto, envs[i])))

\* StockDataFetcher.fetch_all_data
fetch_all_data(self, envs) == FetchLoop(self, envs, 1, <<>>)

----------------------------------------------------------------------------
(* The scroll engine (ScrollHelper of src.common, which the renderer         *)
(* constructs and hands out): its ScrollState and operations.  Offsets are   *)
(* in tenths of a pixel, speeds in pixels per second, the tick interval in   *)
(* milliseconds.                                                             *)

Tenths == 10

\* No strip yet
Idle == <<>>

\* speedPxPerSec * tickIntervalSec, in tenths of a pixel
StepPerTick(sc) == (sc.speed * sc.tick_ms * Tenths) \div 1000

\* contentWidth in the unit of the offset
ContentLength(sc) == sc.content_width * Tenths

\* A fresh scroll session on a strip content_width wide.  ticks counts the
\* ticks since the session was last reset, as long as the speed was not
\* changed (steady); prior_complete is cycleComplete as the last reset found
\* it.
NewSession(content_width, speed, tick_ms) ==
    [offset |-> 0, content_width |-> content_width, viewport_width |-> display_width,
     speed |-> speed, tick_ms |-> tick_ms,
     cycle_complete |-> FALSE, has_scrolled |-> FALSE,
     ticks |-> 0, steady |-> TRUE, prior_complete |-> FALSE]

\* Mutant: a cycle counts as complete only when the offset lands on 0
advanceTick_ExactZero(sc) ==
    LET moved == sc.offset + StepPerTick(sc)
    IN  [sc EXCEPT !.offset = moved % ContentLength(sc),
                   !.cycle_complete = @ \/ moved % ContentLength(sc) = 0,
                   !.has_scrolled = TRUE,
                   !.ticks = IF sc.steady THEN @ + 1 ELSE 0]

\* Tick: offset <- (offset + speedPxPerSec * tickIntervalSec) mod contentWidth;
\* a wrap sets cycleComplete
advanceTick(sc) ==
    LET moved == sc.offset + StepPerTick(sc)
    IN  [sc EXCEPT !.offset = moved % ContentLength(sc),
                   !.cycle_complete = @ \/ moved >= ContentLength(sc),
                   !.has_scrolled = TRUE,
                   !.ticks = IF sc.steady THEN @ + 1 ELSE 0]

setSpeed(sc, speed) ==
    [sc EXCEPT !.speed = speed, !.steady = FALSE, !.ticks = 0]

\* Mutant: the reset rewinds the strip but keeps the cycle flag
forceReset_KeepsCycle(sc) ==
    [sc EXCEPT !.offset = 0, !.has_scrolled = FALSE, !.ticks = 0, !.steady = TRUE,
               !.prior_complete = sc.cycle_complete]

\* Reset: offset 0, cycleComplete and the has-ever-scrolled flag cleared
forceReset(sc) ==
    [sc EXCEPT !.offset = 0, !.cycle_complete = FALSE, !.has_scrolled = FALSE,
               !.ticks = 0, !.steady = TRUE, !.prior_complete = sc.cycle_complete]

\* Mutant: the offset of the old strip is kept as it is
replaceStrip_Unvalidated(sc, content_width, resume) ==
    IF resume
    THEN [sc EXCEPT !.content_width = content_width,
                    !.cycle_complete = FALSE, !.has_scrolled = FALSE,
                    !.ticks = 0, !.steady = FALSE, !.prior_complete = FALSE]
    ELSE NewSession(content_width, sc.speed, sc.tick_ms)

\* Content replacement: the previous session is discarded; the new one
\* starts at 0 or resumes (a policy choice) at the old offset re-validated
\* against the new contentWidth
replaceStrip(sc, content_width, resume) ==
    IF resume
    THEN [sc EXCEPT !.content_width = content_width,
                    !.offset = IF @ < content_width * Tenths THEN @ ELSE 0,
                    !.cycle_complete = FALSE, !.has_scrolled = FALSE,
                    !.ticks = 0, !.steady = FALSE, !.prior_complete = FALSE]
    ELSE NewSession(content_width, sc.speed, sc.tick_ms)

\* Mutant: the read stops at the right edge of the strip
getVisiblePortion_Clipped(sc) ==
    LET start == sc.offset \div Tenths
        n == Min({sc.viewport_width, sc.content_width - start})
    IN  [k \in 1..n |-> start + (k - 1)]

\* Visible portion: for each column of the viewport the strip column shown
\* there, from floor(offset) on, circular
getVisiblePortion(sc) ==
    LET start == sc.offset \div Tenths
    IN  [k \in 1..sc.viewport_width |-> (start + (k - 1)) % sc.content_width]

----------------------------------------------------------------------------
(* Inputs *)

MSFT == <<"M", "S", "F", "T">>
ETHUSD == <<"E", "T", "H", "-", "U", "S", "D">>

\* Symbols with the market suffix in other places: inside a crypto symbol,
\* at the end of a stock symbol
BTCUSDT == <<"B", "T", "C", "-", "U", "S", "D", "T">>
XUSD == <<"X", "-", "U", "S", "D">>

Priced(p) == [timestamp |-> 0, price |-> p]

RisingHistory == <<Priced(150000), Priced(150005), Priced(150010)>>
FlatHistory == <<Priced(150000), Priced(150000)>>

\* Quotes as fetch_stock_data builds them (price, change in hundredths,
\* change_percent in hundredths of a percent), and as other callers may:
\* without 'change_percent', 'is_crypto' or 'price_history'.
Quotes == {
    [symbol |-> AAPL,
     data |-> [price |-> 15000, change |-> 250, change_percent |-> 169, is_crypto |-> FALSE]],
    [symbol |-> AAPL,
     data |-> [price |-> 15000, change |-> -250, open |-> 15250, is_crypto |-> FALSE]],
    [symbol |-> MSFT,
     data |-> [price |-> 41550, change |-> 0, open |-> 0]],
    [symbol |-> BTCUSD,
     data |-> [price |-> 6000000, change |-> -50000, change_percent |-> -83, is_crypto |-> TRUE]],
    [symbol |-> BTCUSD,
     data |-> [price |-> 6000000, change |-> 50000, is_crypto |-> TRUE]],
    [symbol |-> ETHUSD,
     data |-> [price |-> 310000, change |-> 1200, open |-> 308800, is_crypto |-> TRUE]],
    [symbol |-> BTCUSDT,
     data |-> [price |-> 6000000, change |-> 0, change_percent |-> 0, is_crypto |-> TRUE]],
    [symbol |-> XUSD,
     data |-> [price |-> 2500, change |-> -10, change_percent |-> -40, is_crypto |-> FALSE]]}

\* data with its 'price_history' set to h
WithHistory(data, h) == [price_history |-> h] @@ data

\* The histories the tile specification pairs with every quote
TileHistories == {<<>>, <<Priced(150000)>>, <<Priced(150000), [timestamp |-> 0]>>,
                  FlatHistory, RisingHistory}

TileData == Quotes \cup
    {[symbol |-> q.symbol, data |-> WithHistory(q.data, h)] : q \in Quotes, h \in TileHistories}

\* The fetched entities strips are assembled from, one per symbol
Entities == {
    [symbol |-> AAPL,
     data |-> [price |-> 15000, change |-> 250, change_percent |-> 169, is_crypto |-> FALSE,
               price_history |-> RisingHistory]],
    [symbol |-> BTCUSD,
     data |-> [price |-> 6000000, change |-> -50000, change_percent |-> -83, is_crypto |-> TRUE,
               price_history |-> FlatHistory]],
    [symbol |-> MSFT,
     data |-> [price |-> 41550, change |-> 0, open |-> 41000]],
    [symbol |-> ETHUSD,
     data |-> [price |-> 310000, change |-> 1200, change_percent |-> 39, is_crypto |-> TRUE,
               price_history |-> <<Priced(150000)>>]]}

Distinct(s) == \A i, j \in DOMAIN s : i # j => s[i].symbol # s[j].symbol

AllData == {s \in SeqsUpTo(Entities, MaxEntities) : Distinct(s)}

LogoSets == {{}, {AAPL, BTCUSD, MSFT, ETHUSD}}

\* The configurations: every combination of the stock toggles, each with a
\* different combination of the crypto toggles, and the empty configuration.
Configs ==
    {[show_change |-> a, show_percentage |-> b,
      crypto |-> [show_change |-> ~b, show_percentage |-> a]] : a, b \in BOOLEAN}
    \cup {[toggle_chart |-> FALSE]}

\* Display size with the sizes of the symbol, price and delta fonts
Setups == {<<64, 32, 8, 8, 8>>, <<33, 64, 10, 8, 6>>}

----------------------------------------------------------------------------
(* The state machine *)

NoTile == <<>>
NoStrip == <<>>
NoArgs == <<>>
NoResult == <<>>
NoPresenter == <<>>
NoFetcher == <<>>

\* StockDisplayRenderer.__init__ (and StockChartRenderer.__init__, which
\* takes the same display size), StockConfigManager.__init__ and
\* StocksTickerPlugin.__init__, before any call
InitPlugin(h, plugin_config) ==
    \E s \in Setups, c \in Configs :
        /\ display_width = s[1]
        /\ display_height = s[2]
        /\ symbol_font = s[3]
        /\ price_font = s[4]
        /\ price_delta_font = s[5]
        /\ config = c
        /\ toggle_chart = Get(c, "toggle_chart", TRUE)
        /\ enabled = Get(c, "toggle_chart", TRUE)
        /\ op = "init"
        /\ args = NoArgs
        /\ series = h
        /\ tile = NoTile
        /\ static_image = NoTile
        /\ strip = NoStrip
        /\ chart = NoChart
        /\ config_manager = StockConfigManager(plugin_config)
        /\ plugin = StocksTickerPlugin(plugin_config)
        /\ scroll = Idle
        /\ presenter = NoPresenter
        /\ data_fetcher = NoFetcher
        /\ result = NoResult

\* The renderers of a plugin with an empty configuration
InitRenderer(h) == InitPlugin(h, <<>>)

Init == InitRenderer(<<>>)

\* What no call on a renderer changes
fixed == <<display_width, display_height, config, symbol_font, price_font,
           price_delta_font, series, config_manager, plugin, scroll, presenter,
           data_fetcher, result>>

\* Mutant: the new value is not stored
SetToggleChart_Stale ==
    \E e \in BOOLEAN :
        /\ toggle_chart' = toggle_chart
        /\ enabled' = e
        /\ op' = "set_toggle_chart"
        /\ static_image' = NoTile
        /\ args' = NoArgs
        /\ tile' = NoTile
        /\ strip' = NoStrip
        /\ chart' = NoChart
        /\ UNCHANGED fixed

\* StockDisplayRenderer.set_toggle_chart(e)
SetToggleChart ==
    \E e \in BOOLEAN :
        /\ toggle_chart' = e
        /\ enabled' = e
        /\ op' = "set_toggle_chart"
        /\ static_image' = NoTile
        /\ args' = NoArgs
        /\ tile' = NoTile
        /\ strip' = NoStrip
        /\ chart' = NoChart
        /\ UNCHANGED fixed

\* StockDisplayRenderer.create_stock_display(symbol, data) for an entity of D
CreateStockDisplayOf(D) ==
    \E e \in D, found \in BOOLEAN, roundLow \in BOOLEAN :
        /\ tile' = create_stock_display(e.symbol, e.data, found, roundLow)
        /\ op' = "create_stock_display"
        /\ static_image' = NoTile
        /\ args' = [symbol |-> e.symbol, data |-> e.data, found |-> found]
        /\ strip' = NoStrip
        /\ chart' = NoChart
        /\ UNCHANGED <<fixed, toggle_chart, enabled>>

\* StockDisplayRenderer.create_static_display(symbol, data) for an entity of D
CreateStaticDisplayOf(D) ==
    \E e \in D, found \in BOOLEAN :
        /\ static_image' = create_static_display(e.symbol, e.data, found)
        /\ op' = "create_static_display"
        /\ args' = [symbol |-> e.symbol, data |-> e.data, found |-> found]
        /\ tile' = NoTile
        /\ strip' = NoStrip
        /\ chart' = NoChart
        /\ UNCHANGED <<fixed, toggle_chart, enabled>>

\* StockDisplayRenderer.create_scrolling_display(all_data)
CreateScrollingDisplay ==
    \E all_data \in AllData, logos \in LogoSets, roundLow \in BOOLEAN :
        /\ strip' = create_scrolling_display(all_data, logos, roundLow)
        /\ op' = "create_scrolling_display"
        /\ static_image' = NoTile
        /\ args' = all_data
        /\ tile' = NoTile
        /\ chart' = NoChart
        /\ UNCHANGED <<fixed, toggle_chart, enabled>>

\* StockChartRenderer.draw_chart(symbol, data) for an entity of D
DrawChartOf(D) ==
    \E e \in D, roundLow \in BOOLEAN :
        /\ chart' = draw_chart(e.symbol, e.data, roundLow)
        /\ op' = "draw_chart"
        /\ static_image' = NoTile
        /\ args' = [symbol |-> e.symbol, data |-> e.data]
        /\ tile' = NoTile
        /\ strip' = NoStrip
        /\ UNCHANGED <<fixed, toggle_chart, enabled>>

\* StockChartRenderer.draw_mini_chart(draw, price_history, width, height, color)
\* on a tile-sized image, for a history of H
DrawMiniChartOf(H) ==
    \E h \in H, roundLow \in BOOLEAN :
        /\ chart' = draw_mini_chart(h, TileWidth, display_height, "positive_color", roundLow)
        /\ op' = "draw_mini_chart"
        /\ static_image' = NoTile
        /\ args' = [price_history |-> h, width |-> TileWidth, height |-> display_height]
        /\ tile' = NoTile
        /\ strip' = NoStrip
        /\ UNCHANGED <<fixed, toggle_chart, enabled>>

(* Tile composition: any sequence of toggles, tiles and full-screen charts *)

CreateStockDisplay == CreateStockDisplayOf(TileData)

CreateStaticDisplay == CreateStaticDisplayOf(Quotes)

DrawChart == DrawChartOf(TileData)

Next ==
    \/ SetToggleChart
    \/ CreateStockDisplay
    \/ CreateStaticDisplay
    \/ DrawChart

Spec == Init /\ [][Next]_vars

(* Strip assembly: any sequence of toggles and strips *)

NextStrip ==
    \/ SetToggleChart
    \/ CreateScrollingDisplay

SpecStrip == Init /\ [][NextStrip]_vars

(* The chart normalizers, each applied to every history of Histories *)

InitChart == \E h \in Histories : InitRenderer(h)

AAPLQuote == [price |-> 15000, change |-> 250, change_percent |-> 169, is_crypto |-> FALSE]

SeriesData == {[symbol |-> AAPL, data |-> WithHistory(AAPLQuote, series)]}

InlineMiniChart == CreateStockDisplayOf(SeriesData)

FullChart == DrawChartOf(SeriesData)

MiniChart == DrawMiniChartOf({series})

NextChart ==
    \/ SetToggleChart
    \/ InlineMiniChart
    \/ FullChart
    \/ MiniChart

SpecChart == InitChart /\ [][NextChart]_vars

(* The scroll session: strips handed to the scroll engine, ticks, speed     *)
(* changes, resets, and the queries of the caller                           *)

MaxTicks == 130     \* most ticks counted in one steady session

\* Plugin configurations in the nested and in the flat shape
PluginConfigs == {
    [display |-> [scroll_speed |-> 5, scroll_delay |-> 100, dynamic_duration |-> TRUE,
                  min_duration |-> 100, max_duration |-> 3000, duration_buffer |-> 10],
     display_duration |-> 150,
     global_display_duration |-> 150, global_dynamic_duration |-> TRUE,
     global_min_duration |-> 100, global_max_duration |-> 3000],
    [scroll_speed |-> 25, dynamic_duration |-> FALSE, display_duration |-> 305,
     global_display_duration |-> 305, global_dynamic_duration |-> FALSE]}

\* Speeds in pixels per second
Speeds == {25, 125}

\* The collections a refresh may deliver: no entity, or one
ScrollCollections == {s \in AllData : Len(s) = 0 \/ (Len(s) = 1 /\ s[1].symbol = AAPL)}

InitScroll ==
    \E pc \in PluginConfigs :
        /\ InitPlugin(<<>>, pc)
        /\ display_width = 33
        /\ config = [toggle_chart |-> FALSE]

rendererState == <<display_width, display_height, config, toggle_chart, symbol_font,
                   price_font, price_delta_font, enabled, series, tile, static_image,
                   chart, config_manager, plugin, presenter, data_fetcher>>

rendererAttributes == <<display_width, display_height, config, toggle_chart,
                            symbol_font, price_font, price_delta_font, enabled, series,
                            tile, static_image, chart, config_manager, presenter,
                            data_fetcher>>

\* The scroll speed of the configuration in pixels per second
ConfiguredSpeed == (config_manager.scroll_speed * 100) \div config_manager.scroll_delay

\* A data refresh: the strip is rebuilt by create_scrolling_display and
\* handed to the scroll engine
ReplaceStrip ==
    \E all_data \in ScrollCollections, resume \in BOOLEAN :
        LET image == create_scrolling_display(all_data, {}, FALSE)
        IN  /\ strip' = image
            /\ scroll' = IF scroll = Idle
                         THEN NewSession(image.width, ConfiguredSpeed,
                                         config_manager.scroll_delay)
                         ELSE replaceStrip(scroll, image.width, resume)
            /\ op' = "replace_strip"
            /\ args' = all_data
            /\ result' = NoResult
            /\ UNCHANGED rendererState

AdvanceTick ==
    /\ scroll # Idle
    /\ scroll.ticks < MaxTicks
    /\ scroll' = advanceTick(scroll)
    /\ op' = "advance_tick"
    /\ args' = NoArgs
    /\ result' = NoResult
    /\ UNCHANGED <<rendererState, strip>>

SetSpeed ==
    \E speed \in Speeds :
        /\ scroll # Idle
        /\ scroll' = setSpeed(scroll, speed)
        /\ op' = "set_speed"
        /\ args' = NoArgs
        /\ result' = NoResult
        /\ UNCHANGED <<rendererState, strip>>

ForceReset ==
    /\ scroll # Idle
    /\ scroll' = forceReset(scroll)
    /\ op' = "force_reset"
    /\ args' = NoArgs
    /\ result' = NoResult
    /\ UNCHANGED <<rendererState, strip>>

GetVisiblePortion ==
    /\ scroll # Idle
    /\ result' = getVisiblePortion(scroll)
    /\ op' = "get_visible_portion"
    /\ args' = NoArgs
    /\ UNCHANGED <<rendererState, strip, scroll>>

\* StockConfigManager.get_dynamic_duration()
GetDynamicDuration ==
    /\ result' = <<get_dynamic_duration>>
    /\ op' = "get_dynamic_duration"
    /\ args' = NoArgs
    /\ UNCHANGED <<rendererState, strip, scroll>>

\* StocksTickerPlugin.get_display_duration()
GetDisplayDuration ==
    /\ result' = <<get_display_duration>>
    /\ op' = "get_display_duration"
    /\ args' = NoArgs
    /\ UNCHANGED <<rendererState, strip, scroll>>

NextScroll ==
    \/ ReplaceStrip
    \/ AdvanceTick
    \/ SetSpeed
    \/ ForceReset
    \/ GetVisiblePortion
    \/ GetDynamicDuration
    \/ GetDisplayDuration

SpecScroll == InitScroll /\ [][NextScroll]_vars

(* The plugin: update() and display() of StocksTickerPlugin, which the host  *)
(* may call from different threads, so that a display() can fall between     *)
(* two statements of an update()                                             *)

MaxClock == 3       \* the last minute of the wall clock

\* Plugin configurations: the symbols to track
TickerConfigs == {
    [stocks_symbols |-> <<AAPL, MSFT>>, crypto_crypto_symbols |-> <<BTCUSD>>],
    [stocks_symbols |-> <<AAPL>>, crypto_enabled |-> FALSE,
     crypto_crypto_symbols |-> <<BTCUSD>>, global_update_interval |-> 120],
    [stocks_symbols |-> <<>>, crypto_crypto_symbols |-> <<ETHUSD>>],
    <<>>}

\* Values of hash(symbol), which differ from process to process
Hashes == {0, 17}

InitTicker == \E plugin_config \in TickerConfigs : InitPlugin(<<>>, plugin_config)

tickerFixed == <<rendererAttributes, strip, scroll>>

\* update() is called
Update ==
    \E d \in 0..1 :
        /\ plugin.pc = "idle"
        /\ plugin.now + d <= MaxClock
        /\ plugin' = update_call(plugin, d)
        /\ op' = "update"
        /\ args' = NoArgs
        /\ UNCHANGED <<tickerFixed, result>>

\* update() executes its next statement
UpdateStep ==
    \E h \in Hashes :
        /\ plugin.pc # "idle"
        /\ plugin' = update_step(plugin, h)
        /\ op' = "update"
        /\ args' = NoArgs
        /\ UNCHANGED <<tickerFixed, result>>

\* display() is called and returns or raises
Display ==
    /\ result' = display(plugin)
    /\ op' = "display"
    /\ args' = NoArgs
    /\ UNCHANGED <<tickerFixed, plugin>>

\* cleanup() is called
Cleanup ==
    /\ plugin' = cleanup(plugin)
    /\ op' = "cleanup"
    /\ args' = NoArgs
    /\ UNCHANGED <<tickerFixed, result>>

NextTicker ==
    \/ Update
    \/ UpdateStep
    \/ Display
    \/ Cleanup

SpecTicker == InitTicker /\ [][NextTicker]_vars

(* The static presenter: one entity at a time, each drawn standalone by      *)
(* create_static_display for one dwell period.  index counts from 0; shown   *)
(* is the set of indices covered since the last reset; dwells counts the     *)
(* dwell periods begun since the last reset.                                 *)

MaxDwells == 5      \* most dwell periods counted since a reset

\* The presenter of an entity set, at its reset state
NewPresenter(entities) ==
    [entities |-> entities, index |-> 0, shown |-> {}, cycle_complete |-> FALSE,
     dwells |-> 0]

\* The entity the presenter shows in the dwell period beginning now
CurrentEntity(pr) == pr.entities[pr.index + 1]

\* Mutant: the index is advanced past the last entity
presentNext_NoModulo(pr) ==
    LET shown == pr.shown \cup {pr.index}
    IN  [pr EXCEPT !.index = pr.index + 1,
                   !.shown = shown,
                   !.cycle_complete = Cardinality(shown) = Len(pr.entities),
                   !.dwells = pr.dwells + 1]

\* A dwell period: the current entity is covered and the index advanced
\* modulo the entity count
presentNext(pr) ==
    LET shown == pr.shown \cup {pr.index}
    IN  [pr EXCEPT !.index = (pr.index + 1) % Len(pr.entities),
                   !.shown = shown,
                   !.cycle_complete = Cardinality(shown) = Len(pr.entities),
                   !.dwells = pr.dwells + 1]

\* The reset of the presenter
resetPresenter(pr) == NewPresenter(pr.entities)

\* The entity sets a static session may present
StaticCollections == {s \in AllData : Len(s) > 0}

staticFixed == <<display_width, display_height, config, toggle_chart, symbol_font,
                 price_font, price_delta_font, enabled, series, tile, strip, chart,
                 config_manager, plugin, scroll, data_fetcher, result>>

\* A static session starts on an entity set
StartStatic ==
    \E all_data \in StaticCollections :
        /\ presenter = NoPresenter
        /\ presenter' = NewPresenter(all_data)
        /\ static_image' = NoTile
        /\ op' = "start_static"
        /\ args' = NoArgs
        /\ UNCHANGED staticFixed

\* A dwell period begins: the current entity is drawn by
\* create_static_display and the index advanced
PresentNext ==
    \E found \in BOOLEAN :
        /\ presenter # NoPresenter
        /\ presenter.dwells < MaxDwells
        /\ static_image' = create_static_display(CurrentEntity(presenter).symbol,
                                                 CurrentEntity(presenter).data, found)
        /\ presenter' = presentNext(presenter)
        /\ op' = "present_next"
        /\ args' = [found |-> found]
        /\ UNCHANGED staticFixed

ResetStatic ==
    /\ presenter # NoPresenter
    /\ presenter' = resetPresenter(presenter)
    /\ static_image' = NoTile
    /\ op' = "reset_static"
    /\ args' = NoArgs
    /\ UNCHANGED staticFixed

NextStatic ==
    \/ StartStatic
    \/ PresentNext
    \/ ResetStatic

SpecStatic == Init /\ [][NextStatic]_vars

(* The configuration manager: construction, reload_config on the             *)
(* configuration dict as the host has left it, and the setters               *)

Blue == <<0, 0, 2550>>
Cyan == <<0, 2550, 2550>>
Orange == <<2555, 1280, 0>>
BTC == <<"B", "T", "C">>

\* Plugin configurations in the flat shape, in the nested shape, in a
\* mixture of both, and with values of the wrong type
LoaderConfigs == {
    <<>>,
    [scroll_speed |-> 75, scroll_delay |-> 0, toggle_chart |-> TRUE,
     dynamic_duration |-> FALSE, min_duration |-> 100, max_duration |-> 600,
     duration_buffer |-> 20, display_duration |-> 150, symbols |-> <<AAPL>>,
     text_color |-> Blue, positive_color |-> Cyan, negative_color |-> Orange],
    [display |-> [scroll_speed |-> 2, scroll_delay |-> 1500, min_duration |-> 200],
     scroll_speed |-> 30, scroll_delay |-> 50, toggle_chart |-> FALSE,
     dynamic_duration |-> FALSE, min_duration |-> 100, max_duration |-> 600,
     duration_buffer |-> 20,
     stocks |-> [symbols |-> <<AAPL, MSFT>>],
     crypto |-> [enabled |-> TRUE, symbols |-> <<BTCUSD>>, text_color |-> Orange],
     customization |->
        [stocks |-> [symbol |-> [text_color |-> Blue], price |-> [text_color |-> Cyan],
                     price_delta |-> [positive_color |-> Cyan, negative_color |-> Orange]],
         crypto |-> [symbol |-> [text_color |-> Cyan]]]],
    [display |-> [scroll_delay |-> 40, toggle_chart |-> FALSE, max_duration |-> 900,
                  mistyped |-> {"scroll_speed"}],
     display_duration |-> 150, enabled |-> FALSE, update_interval |-> 300],
    [display_duration |-> 150, update_interval |-> 300, scroll_delay |-> 40,
     mistyped |-> {"display"}],
    [scroll_speed |-> 20, scroll_delay |-> 50, toggle_chart |-> TRUE,
     enable_scrolling |-> FALSE, mistyped |-> {"stocks"}],
    [scroll_speed |-> 20, scroll_delay |-> 50, max_duration |-> 900,
     stocks |-> [symbols |-> <<MSFT>>, display_format |-> "{symbol}"],
     crypto |-> [enabled |-> TRUE, crypto_symbols |-> <<BTC, ETHUSD>>,
                 update_interval |-> 60],
     positive_color |-> Cyan, mistyped |-> {"text_color"}],
    [crypto |-> [enabled |-> TRUE, crypto_symbols |-> <<BTC, ETHUSD>>,
                 text_color |-> Orange, positive_color |-> Cyan],
     stocks |-> [enabled |-> FALSE, symbols |-> <<AAPL>>],
     api |-> [timeout |-> 5, retry_count |-> 1]],
    [customization |-> [stocks |-> [text_color |-> Blue, positive_color |-> Cyan],
                        crypto |-> [text_color |-> Cyan, negative_color |-> Blue]],
     text_color |-> Orange],
    [text_color |-> Blue, positive_color |-> Cyan, negative_color |-> Blue,
     customization |-> [crypto |-> [text_color |-> Cyan, positive_color |-> Blue,
                                    negative_color |-> Cyan]]]}

\* Speeds a caller may set, in tenths of a pixel per frame
SpeedInputs == {-10, 4, 25, 51, 1000}

\* Delays a caller may set, in milliseconds
DelayInputs == {-5, 0, 20, 1001}

TypeError == [raised |-> "TypeError"]

InitConfig ==
    \E plugin_config \in LoaderConfigs :
        /\ InitPlugin(<<>>, plugin_config)
        /\ display_width = 64
        /\ config = [toggle_chart |-> FALSE]

configFixed == <<display_width, display_height, config, toggle_chart, symbol_font,
                 price_font, price_delta_font, enabled, series, tile, static_image,
                 strip, chart, plugin, scroll, presenter, data_fetcher>>

\* reload_config(), after the host has put new content in the dict
ReloadConfig ==
    \E plugin_config \in LoaderConfigs :
        /\ config_manager' =
              reload_config([config_manager EXCEPT !.plugin_config = plugin_config])
        /\ op' = "reload_config"
        /\ args' = NoArgs
        /\ result' = NoResult
        /\ UNCHANGED configFixed

\* set_scroll_speed(speed): a speed that is not a number makes min() raise
\* TypeError before anything is stored
SetScrollSpeed ==
    \E speed \in SpeedInputs, numeric \in BOOLEAN :
        /\ config_manager' = IF numeric THEN set_scroll_speed(config_manager, speed)
                             ELSE config_manager
        /\ op' = "set_scroll_speed"
        /\ args' = [speed |-> speed, numeric |-> numeric]
        /\ result' = IF numeric THEN NoResult ELSE TypeError
        /\ UNCHANGED configFixed

\* set_scroll_delay(delay)
SetScrollDelay ==
    \E delay \in DelayInputs :
        /\ config_manager' = set_scroll_delay(config_manager, delay)
        /\ op' = "set_scroll_delay"
        /\ args' = NoArgs
        /\ result' = NoResult
        /\ UNCHANGED configFixed

\* StockConfigManager.set_toggle_chart(enabled)
ConfigSetToggleChart ==
    \E chart_enabled \in BOOLEAN :
        /\ config_manager' = set_toggle_chart(config_manager, chart_enabled)
        /\ op' = "config_set_toggle_chart"
        /\ args' = NoArgs
        /\ result' = NoResult
        /\ UNCHANGED configFixed

NextConfig ==
    \/ ReloadConfig
    \/ SetScrollSpeed
    \/ SetScrollDelay
    \/ ConfigSetToggleChart

SpecConfig == InitConfig /\ [][NextConfig]_vars

(* The data fetcher: construction on the symbols of the configuration        *)
(* manager, single fetches and fetch_all_data, against an API and a          *)
(* background service that answer in every way                               *)

\* Responses of the API: quotes, bodies without a usable chart, exceptions
QuoteResponse ==
    [body |-> [chart |-> [result |-> <<
        [meta |-> [regularMarketPrice |-> 150255, previousClose |-> 150000],
         timestamp |-> <<1, 2, 3>>,
         indicators |-> [quote |-> <<[close |-> <<(<<150000>>), (<<>>), (<<150255>>)>>]>>]]>>]]]

NoPreviousClose ==
    [body |-> [chart |-> [result |-> <<[meta |-> [regularMarketPrice |-> 41550]]>>]]]

NegativePreviousClose ==
    [body |-> [chart |-> [result |-> <<
        [meta |-> [regularMarketPrice |-> 100, previousClose |-> -50],
         timestamp |-> <<1>>]>>]]]

Responses ==
    {QuoteResponse, NoPreviousClose, NegativePreviousClose,
     [body |-> <<>>],
     [body |-> [chart |-> [result |-> <<>>]]],
     [body |-> [chart |-> [error |-> "Not Found"]]],
     [raises |-> "RequestException"],
     [raises |-> "ValueError"],
     [raises |-> "RuntimeError"]}

\* What submit() of the background service does
Submits == {"raise", "run", "other"}

Services == {"none", "no_submit", "submit"}

\* What a single fetch may meet
SingleEnvs ==
    [raises : {FALSE}, submit : Submits, response : Responses, roundLow : BOOLEAN]

\* What a call inside fetch_all_data may meet
CallEnvs ==
    {[raises |-> TRUE, submit |-> "run", response |-> QuoteResponse, roundLow |-> FALSE],
     [raises |-> FALSE, submit |-> "run", response |-> QuoteResponse, roundLow |-> FALSE],
     [raises |-> FALSE, submit |-> "raise", response |-> NoPreviousClose, roundLow |-> TRUE],
     [raises |-> FALSE, submit |-> "run", response |-> [raises |-> "RequestException"],
      roundLow |-> FALSE],
     [raises |-> FALSE, submit |-> "other", response |-> [body |-> <<>>],
      roundLow |-> FALSE]}

\* Plugin configurations: the symbols to fetch
FetcherConfigs == {
    [stocks |-> [symbols |-> <<AAPL, MSFT>>],
     crypto |-> [enabled |-> TRUE, symbols |-> <<BTCUSD>>]],
    [symbols |-> <<AAPL>>, crypto |-> [enabled |-> TRUE, symbols |-> <<BTC, ETHUSD>>]],
    [stocks |-> [symbols |-> <<BTCUSD, AAPL>>],
     crypto |-> [enabled |-> TRUE, symbols |-> <<BTCUSD>>]],
    [stocks |-> [enabled |-> FALSE]]}

InitFetcher ==
    \E plugin_config \in FetcherConfigs :
        /\ InitPlugin(<<>>, plugin_config)
        /\ display_width = 64
        /\ config = [toggle_chart |-> FALSE]

fetcherFixed == <<display_width, display_height, config, toggle_chart, symbol_font,
                  price_font, price_delta_font, enabled, series, tile, static_image,
                  strip, chart, config_manager, plugin, scroll, presenter>>

\* StockDataFetcher(config_manager, cache_manager, logger)
NewFetcher ==
    \E service \in Services :
        /\ data_fetcher = NoFetcher
        /\ data_fetcher' = StockDataFetcher(config_manager, service)
        /\ op' = "new_fetcher"
        /\ args' = NoArgs
        /\ result' = NoResult
        /\ UNCHANGED fetcherFixed

\* The symbols a single fetch is made for, with their class
FetchedSymbols == {<<AAPL, FALSE>>, <<BTCUSD, TRUE>>}

\* fetch_stock_data(symbol, is_crypto)
FetchStockData ==
    \E s \in FetchedSymbols, env \in SingleEnvs :
        /\ data_fetcher # NoFetcher
        /\ result' = <<fetch_stock_data(data_fetcher, s[1], s[2], env)>>
        /\ op' = "fetch_stock_data"
        /\ args' = [symbol |-> s[1], is_crypto |-> s[2], env |-> env]
        /\ UNCHANGED <<fetcherFixed, data_fetcher>>

\* The number of calls fetch_all_data makes
NumCalls(self) == Len(self.stock_symbols) + Len(self.crypto_symbols)

\* fetch_all_data()
FetchAllData ==
    /\ data_fetcher # NoFetcher
    /\ \E envs \in [1..NumCalls(data_fetcher) -> CallEnvs] :
        /\ result' = <<fetch_all_data(data_fetcher, envs)>>
        /\ op' = "fetch_all_data"
        /\ args' = envs
        /\ UNCHANGED <<fetcherFixed, data_fetcher>>

NextFetcher ==
    \/ NewFetcher
    \/ FetchStockData
    \/ FetchAllData

SpecFetcher == InitFetcher /\ [][NextFetcher]_vars

----------------------------------------------------------------------------
(* Strip assembly: claims C1 to C4, under SpecStrip *)

\* A strip was assembled from at least one entity
StripCase == op = "create_scrolling_display" /\ Len(args) >= 1

PastedRight(i) == strip.pastes[i].x + strip.pastes[i].tile.width

RECURSIVE PastedWidths(_)
PastedWidths(i) == IF i = 0 THEN 0 ELSE PastedWidths(i - 1) + strip.pastes[i].tile.width

\* C1: every tile pasted by create_scrolling_display lies entirely inside the
\* returned canvas: 0 <= x_i and x_i + tileWidth_i <= total strip width.
C1_TilesInsideCanvas ==
    StripCase =>
        \A i \in DOMAIN strip.pastes :
            0 <= strip.pastes[i].x /\ PastedRight(i) <= strip.width

\* C2: for n >= 1 entities the canvas is display_height high and exactly
\* (sum of the n tile widths) + (W \div 6) * (n - 1) + (W \div 8) * (2n - 1) wide.
C2_StripWidth ==
    StripCase =>
        LET n == Len(args)
        IN  /\ strip.kind = "strip"
            /\ Len(strip.pastes) = n
            /\ strip.height = display_height
            /\ strip.width = PastedWidths(n) + (display_width \div 6) * (n - 1)
                             + (display_width \div 8) * (2 * n - 1)

\* C2 witness: a strip of two narrow (chart off) tiles
C2_Witness == StripCase /\ Len(args) = 2 /\ ~toggle_chart /\ strip.kind = "strip"

\* C3: tiles are placed left to right in the order of the mapping, without
\* overlap: the first at the leading offset W, tile i+1 exactly at
\* x_i + tileWidth_i + W \div 8 + W \div 6; offset and gaps depend on the display
\* width only, whatever the chart toggle.
C3_TilePlacement ==
    StripCase =>
        /\ Len(strip.pastes) = Len(args)
        /\ strip.pastes[1].x = display_width
        /\ \A i \in DOMAIN strip.pastes :
            /\ strip.pastes[i].tile.symbol = args[i].symbol
            /\ strip.pastes[i].y = 0
            /\ i > 1 => /\ strip.pastes[i].x = PastedRight(i - 1) + display_width \div 8
                                               + display_width \div 6
                        /\ strip.pastes[i].x >= PastedRight(i - 1)

\* C3 witness: a strip of two wide (chart on) tiles, a crypto entity first
C3_Witness ==
    /\ StripCase /\ Len(args) = 2 /\ toggle_chart
    /\ args[1].symbol = BTCUSD
    /\ strip.pastes[2].x > strip.pastes[1].x

\* C4: for an empty collection no tile is composed and the 'No Data Available'
\* frame of display_width by display_height is returned, so the content width
\* is strictly positive when display_width > 0.
C4_EmptyCollection ==
    (op = "create_scrolling_display" /\ Len(args) = 0) =>
        /\ strip.kind = "error"
        /\ strip.pastes = <<>>
        /\ strip.width = display_width
        /\ strip.height = display_height
        /\ display_width > 0 => strip.width > 0

\* C4 witness: the error frame returned for an empty collection
C4_Witness ==
    op = "create_scrolling_display" /\ Len(args) = 0 /\ strip.kind = "error"

----------------------------------------------------------------------------
(* Tile composition: claims C7 to C10, under Spec *)

TileCase == op = "create_stock_display"

PricedPoints(h) == SelectSeq(h, LAMBDA pt : "price" \in DOMAIN pt)

\* The history is missing or has fewer than 2 priced points
ShortHistory(data) ==
    "price_history" \notin DOMAIN data \/ Len(PricedPoints(data.price_history)) < 2

\* Everything of a tile but its chart
TextOf(t) == [f \in DOMAIN t \ {"chart"} |-> t[f]]

\* C7: for an entity whose price history is missing or has fewer than 2 priced
\* points no chart line is drawn, neither inline by create_stock_display nor
\* full-screen by draw_chart, and the tile's symbol, price and delta are
\* rendered exactly as for the same entity with a sufficient history.
C7_NoChartOnShortHistory ==
    /\ (TileCase /\ ShortHistory(args.data)) =>
          /\ tile.chart = NoChart
          /\ TextOf(tile) = TextOf(create_stock_display(
                 args.symbol, WithHistory(args.data, RisingHistory), args.found, FALSE))
    /\ (op = "draw_chart" /\ ShortHistory(args.data)) => chart = NoChart

\* C7 witness: chart toggle on, a history of two points only one of them
\* priced, and a tile without a chart
C7_Witness ==
    /\ TileCase /\ toggle_chart
    /\ "price_history" \in DOMAIN args.data
    /\ Len(args.data.price_history) = 2
    /\ Len(PricedPoints(args.data.price_history)) = 1
    /\ tile.chart = NoChart /\ tile.change_pos # <<>>

\* C8: a tile uses the layout of the most recently set toggle value: width
\* 2 * W and a chart allowed when it is true, width int(1.5 * W) and never a
\* chart when it is false; the height is display_height; the dimensions do
\* not depend on the entity's data.
C8_LayoutFollowsToggle ==
    TileCase =>
        /\ tile.width = IF enabled THEN 2 * display_width ELSE (3 * display_width) \div 2
        /\ tile.height = display_height
        /\ ~enabled => tile.chart = NoChart
        /\ (enabled /\ ~ShortHistory(args.data)) => tile.chart.kind # "none"

\* C8 witness: a narrow tile after the toggle was switched off from its
\* configured value
C8_Witness ==
    /\ TileCase /\ ~enabled /\ Get(config, "toggle_chart", TRUE)
    /\ ~ShortHistory(args.data)
    /\ tile.width = (3 * display_width) \div 2

ClassFlags == IF Get(args.data, "is_crypto", FALSE) THEN Get(config, "crypto", <<>>) ELSE config

BothTogglesOff ==
    ~Get(ClassFlags, "show_change", TRUE) /\ ~Get(ClassFlags, "show_percentage", TRUE)

DeltaShown == tile.change_pos # <<>>

\* C9: with both delta toggles of the asset class off no delta line is drawn
\* and the text block is symbolHeight + priceHeight + one gap high; with a
\* delta line it is deltaHeight plus exactly one more gap higher.
C9_DeltaHeightAccounting ==
    TileCase =>
        LET base == tile.symbol_size[2] + tile.price_size[2] + tile.text_gap
        IN  /\ BothTogglesOff => ~DeltaShown
            /\ ~DeltaShown => tile.total_text_height = base /\ tile.change_parts = <<>>
            /\ DeltaShown =>
                  /\ tile.change_size[2] > 0
                  /\ tile.total_text_height = base + tile.change_size[2] + tile.text_gap

\* C9 witness: both toggles off and a two-line tile
C9_Witness == TileCase /\ BothTogglesOff /\ ~DeltaShown /\ tile.change_parts = <<>>

\* C10: the lines are stacked symbol, price, delta with one fixed gap, each
\* centred on the text column, and the block starts at
\* floor((tileHeight - blockHeight) / 2): top and bottom margins differ by at
\* most 1.
C10_TextStack ==
    TileCase =>
        LET symbol_y == tile.symbol_pos[2]
            price_y == tile.price_pos[2]
            block == tile.total_text_height
            bottom == IF DeltaShown THEN tile.change_pos[2] + tile.change_size[2]
                      ELSE price_y + tile.price_size[2]
        IN  /\ tile.text_gap \in {1, 2}
            /\ price_y = symbol_y + tile.symbol_size[2] + tile.text_gap
            /\ DeltaShown => tile.change_pos[2] = price_y + tile.price_size[2] + tile.text_gap
            /\ tile.column_x - tile.symbol_pos[1] = tile.symbol_size[1] \div 2
            /\ tile.column_x - tile.price_pos[1] = tile.price_size[1] \div 2
            /\ DeltaShown => tile.column_x - tile.change_pos[1] = tile.change_size[1] \div 2
            /\ 2 * symbol_y <= tile.height - block
            /\ tile.height - block < 2 * symbol_y + 2
            /\ bottom = symbol_y + block
            /\ (tile.height - bottom) - symbol_y \in {0, 1}

\* C10 witness: a three-line tile with both parts of the delta
C10_Witness ==
    /\ TileCase /\ DeltaShown /\ Len(tile.change_parts) = 2
    /\ tile.symbol_pos[2] > 0
    /\ tile.change_pos[2] > tile.price_pos[2]

----------------------------------------------------------------------------
(* Chart normalizers: claims C5 and C6, under SpecChart *)

\* A normalizer was applied to the series, which has at least 2 prices
NormalizerRan ==
    /\ Len(PricedPoints(series)) >= 2
    /\ \/ op \in {"draw_mini_chart", "draw_chart"}
       \/ op = "create_stock_display" /\ toggle_chart

\* What the most recent call drew
Drawn == IF op = "create_stock_display" THEN tile.chart ELSE chart

\* All prices of the series are equal
Flat == \A i, j \in DOMAIN PricedPoints(series) :
            PricedPoints(series)[i].price = PricedPoints(series)[j].price

NonDecreasingX(c) ==
    \A i, j \in DOMAIN c.points : i < j => c.points[i][1] <= c.points[j][1]

InsideBox(c) ==
    \A i \in DOMAIN c.points :
        /\ c.box[2] <= c.points[i][2]
        /\ c.points[i][2] <= c.box[2] + c.box[4]

\* One point per price, in order: a higher price is never drawn lower
OnePointPerPrice(c) ==
    /\ Len(c.points) = Len(PricedPoints(series))
    /\ \A i, j \in DOMAIN c.points :
          PricedPoints(series)[i].price < PricedPoints(series)[j].price
              => c.points[i][2] >= c.points[j][2]

\* C5 as claimed: every normalizer produces exactly n points for n >= 2
\* prices, one per price in order, x non-decreasing, y within the box.
C5_OnePointPerPrice ==
    NormalizerRan =>
        OnePointPerPrice(Drawn) /\ NonDecreasingX(Drawn) /\ InsideBox(Drawn)

\* C5 as amended: as claimed, except that the chart renderer's mini-chart and
\* full-screen chart draw a series of equal prices as the 2 end points of one
\* horizontal line.
C5_OnePointPerPriceUnlessFlat ==
    NormalizerRan =>
        /\ NonDecreasingX(Drawn) /\ InsideBox(Drawn)
        /\ IF Flat /\ op \in {"draw_mini_chart", "draw_chart"}
           THEN Drawn.kind = "hline" /\ Len(Drawn.points) = 2
           ELSE Drawn.kind = "polyline" /\ OnePointPerPrice(Drawn)

\* C5 witness: a full-screen chart of three prices that are not all equal
C5_Witness ==
    /\ NormalizerRan /\ op = "draw_chart" /\ ~Flat
    /\ Len(PricedPoints(series)) = 3
    /\ Len(chart.points) = 3
    /\ chart.points[1][2] > chart.points[3][2]

\* C6 as claimed: a series of equal prices is drawn by every normalizer as a
\* horizontal line at y = boxY + boxHeight \div 2 spanning the box width.
C6_FlatCentredLine ==
    (NormalizerRan /\ Flat) =>
        LET c == Drawn
            y == c.box[2] + c.box[4] \div 2
        IN  /\ Len(c.points) >= 2
            /\ \A i \in DOMAIN c.points : c.points[i][2] = y
            /\ c.points[1][1] = c.box[1]
            /\ c.points[Len(c.points)][1] = c.box[1] + c.box[3]

----------------------------------------------------------------------------
(* Styling and layout of a composed entity: claims C11 to C14 *)

\* create_stock_display or create_static_display composed an entity
ComposerCase == op \in {"create_stock_display", "create_static_display"}

\* The image the most recent composer call returned
Composed == IF op = "create_static_display" THEN static_image ELSE tile

IsCrypto == Get(args.data, "is_crypto", FALSE)

StockPair == {"positive_color", "negative_color"}

CryptoPair == {"crypto_positive_color", "crypto_negative_color"}

\* C11: the delta colour is selected by the sign of change from the pair of
\* the entity's own asset class: negative colour for change < 0, positive
\* colour for change >= 0; a stock never gets a colour of the crypto pair nor
\* a crypto entity one of the stock pair.
C11_DeltaColour ==
    ComposerCase =>
        LET c == Composed.change_color
        IN  /\ args.data.change < 0 =>
                  c = IF IsCrypto THEN "crypto_negative_color" ELSE "negative_color"
            /\ args.data.change >= 0 =>
                  c = IF IsCrypto THEN "crypto_positive_color" ELSE "positive_color"
            /\ IF IsCrypto THEN c \in CryptoPair /\ c \notin StockPair
                           ELSE c \in StockPair /\ c \notin CryptoPair

\* C11 witness: a static display of a falling crypto entity with its delta
\* line drawn in the crypto negative colour
C11_Witness ==
    /\ op = "create_static_display" /\ IsCrypto /\ args.data.change < 0
    /\ static_image.change_pos # <<>>
    /\ static_image.change_color = "crypto_negative_color"

\* The symbol without its trailing market suffix
StripSuffix(symbol) ==
    LET n == Len(symbol) - Len(USDSuffix)
    IN  IF n >= 0 /\ SubSeq(symbol, n + 1, Len(symbol)) = USDSuffix
        THEN SubSeq(symbol, 1, n)
        ELSE symbol

\* C12: the display symbol of a crypto entity is its raw symbol with the
\* trailing '-USD' removed and every other character unchanged; the display
\* symbol of a stock is its raw symbol unchanged, even if it contains '-USD'.
C12_DisplaySymbol ==
    ComposerCase =>
        Composed.display_symbol = IF IsCrypto THEN StripSuffix(args.symbol) ELSE args.symbol

\* Everything of a tile but its logo and its chart
LayoutOf(t) == [f \in DOMAIN t \ {"logo", "chart"} |-> t[f]]

\* C13: when the logo lookup yields no image create_stock_display still
\* returns a tile of the same dimensions, without a logo, whose text column
\* and symbol, price and delta positions are those of the same entity with a
\* logo image.
C13_MissingLogo ==
    (TileCase /\ ~args.found) =>
        LET withLogo == StockDisplayWithLogo(args.symbol, args.data,
                                             _get_stock_logo(TRUE), FALSE)
        IN  /\ tile # NoTile
            /\ withLogo.logo # <<>>
            /\ tile.logo = <<>>
            /\ tile.width = withLogo.width /\ tile.height = withLogo.height
            /\ tile.column_x = withLogo.column_x
            /\ tile.symbol_pos = withLogo.symbol_pos
            /\ tile.price_pos = withLogo.price_pos
            /\ tile.change_pos = withLogo.change_pos
            /\ LayoutOf(tile) = LayoutOf(withLogo)

\* C13 witness: a tile with all three lines composed without a logo image
C13_Witness ==
    /\ TileCase /\ ~args.found
    /\ tile.logo = <<>> /\ tile.change_pos # <<>>
    /\ tile.width = TileWidth

\* An inline mini-chart was drawn on the tile
InlineChartCase == TileCase /\ tile.chart.kind # "none"

\* The box is 4 pixels from the tile's right edge and inside the tile
BoxAnchoredInside(t) ==
    LET b == t.chart.box
    IN  /\ b[1] + b[3] + 4 = t.width
        /\ 0 <= b[1] /\ 0 <= b[2] /\ b[3] >= 0 /\ b[4] >= 0
        /\ b[2] + b[4] <= t.height
        /\ \A i \in DOMAIN t.chart.points :
              /\ b[1] <= t.chart.points[i][1]
              /\ t.chart.points[i][1] <= b[1] + b[3]

\* C14: with the chart enabled and a sufficient history the inline mini-chart
\* box is anchored to the tile's right edge with a fixed margin, lies inside
\* the tile, and is between tileWidth / 5 and tileWidth / 4 wide.
C14_ChartBoxQuarterToFifth ==
    InlineChartCase =>
        /\ BoxAnchoredInside(tile)
        /\ 5 * tile.chart.box[3] >= tile.width
        /\ 4 * tile.chart.box[3] <= tile.width

----------------------------------------------------------------------------
(* Full-screen chart: claim C15, under SpecChart *)

\* draw_chart drew the series, which has at least 2 prices
FullChartCase == op = "draw_chart" /\ Len(PricedPoints(series)) >= 2

FirstPrice == PricedPoints(series)[1].price

LastPrice == PricedPoints(series)[Len(PricedPoints(series))].price

\* C15: the line of the full-screen chart has the negative-trend colour if and
\* only if the last price is strictly less than the first, and the
\* positive-trend colour otherwise (last = first and flat series included),
\* whatever the prices in between.
C15_TrendColour ==
    FullChartCase =>
        /\ chart.kind # "none"
        /\ chart.color = IF LastPrice < FirstPrice THEN "line_negative" ELSE "line"

\* C15 witness: a series that rises and then falls below its first price,
\* drawn in the negative-trend colour
C15_Witness ==
    /\ FullChartCase /\ Len(PricedPoints(series)) = 3
    /\ PricedPoints(series)[2].price > FirstPrice
    /\ LastPrice < FirstPrice
    /\ chart.color = "line_negative"

----------------------------------------------------------------------------
(* The scroll session: claims C16 to C20, under SpecScroll *)

ScrollCase == scroll # Idle

\* C16: with a strip present, after any sequence of ticks, speed changes,
\* resets and strip replacements, 0 <= offset < contentWidth, contentWidth
\* being the width of the current strip: the offset is re-validated when a
\* narrower strip replaces the old one.
C16_OffsetInRange ==
    ScrollCase =>
        /\ scroll.content_width = strip.width
        /\ scroll.content_width > 0
        /\ 0 <= scroll.offset
        /\ scroll.offset < ContentLength(scroll)

\* C16 witness: a session resumed on the narrower no-data frame, scrolled on
C16_Witness ==
    /\ ScrollCase /\ strip.kind = "error" /\ ~scroll.steady
    /\ op = "advance_tick" /\ scroll.offset > 0 /\ ~scroll.cycle_complete

\* ceil(contentWidth / (speedPxPerSec * tickIntervalSec))
TicksToWrap(sc) == (ContentLength(sc) + StepPerTick(sc) - 1) \div StepPerTick(sc)

\* C17: from a reset session with constant speed and tick interval,
\* cycleComplete is false until the offset first wraps, true after exactly
\* ceil(contentWidth / (speedPxPerSec * tickIntervalSec)) ticks, and stays
\* true over further ticks and wraps.
C17_CycleComplete ==
    (ScrollCase /\ scroll.steady) =>
        /\ scroll.cycle_complete <=> scroll.ticks >= TicksToWrap(scroll)
        /\ scroll.ticks > 0 => scroll.has_scrolled

\* C17 witness: a steady session past its second wrap, where the strip length
\* is not a multiple of the step
C17_Witness ==
    /\ ScrollCase /\ scroll.steady /\ op = "advance_tick"
    /\ ContentLength(scroll) % StepPerTick(scroll) # 0
    /\ scroll.ticks >= 2 * TicksToWrap(scroll)
    /\ scroll.cycle_complete /\ scroll.offset > 0

\* C18: right after forceReset(), from any state, offset = 0, cycleComplete
\* is false and the has-ever-scrolled flag is cleared.
C18_ForceReset ==
    op = "force_reset" =>
        /\ scroll.offset = 0
        /\ ~scroll.cycle_complete
        /\ ~scroll.has_scrolled

\* C18 witness: a reset of a session whose cycle had completed
C18_Witness ==
    /\ op = "force_reset" /\ scroll.prior_complete
    /\ scroll.offset = 0 /\ ~scroll.cycle_complete

\* C19: the visible portion is exactly viewportWidth wide and starts at
\* floor(offset); each column is the strip column after the one to its left,
\* the column after the strip's last being its first.
C19_VisiblePortion ==
    op = "get_visible_portion" =>
        /\ Len(result) = scroll.viewport_width
        /\ scroll.viewport_width = display_width
        /\ result[1] = scroll.offset \div Tenths
        /\ \A k \in DOMAIN result :
              /\ result[k] \in 0..(scroll.content_width - 1)
              /\ k > 1 => result[k] =
                    IF result[k - 1] = scroll.content_width - 1 THEN 0
                    ELSE result[k - 1] + 1

\* C19 witness: a read at a fractional offset that runs over the right edge
\* of a strip wider than the viewport
C19_Witness ==
    /\ op = "get_visible_portion"
    /\ scroll.content_width > scroll.viewport_width
    /\ scroll.offset % Tenths # 0
    /\ scroll.offset \div Tenths + scroll.viewport_width > scroll.content_width
    /\ result[Len(result)] < result[1]

\* The duration was asked for with dynamic duration enabled
DynamicCase ==
    /\ ScrollCase
    /\ \/ op = "get_dynamic_duration" /\ config_manager.dynamic_duration
       \/ op = "get_display_duration" /\ plugin.dynamic_duration

\* C20: with dynamic duration enabled the duration reported for one scroll
\* cycle is contentWidth / speedPxPerSec clamped to [minDuration,
\* maxDuration] and inflated by durationBuffer.  (Durations are in tenths of
\* a second and the buffer in percent; both sides are multiplied by
\* 100 * speedPxPerSec.)
C20_DynamicDuration ==
    DynamicCase =>
        result[1] * scroll.speed * 100 =
            Clamp(ContentLength(scroll),
                  config_manager.min_duration * scroll.speed,
                  config_manager.max_duration * scroll.speed)
            * (100 + config_manager.duration_buffer)


----------------------------------------------------------------------------
(* The plugin: claims C21 and C23, under SpecTicker *)

\* The configured symbols of a kind
Configured(key) == Get(plugin.config, key, <<>>)

\* The crypto symbols a refresh fetches
CryptoTracked ==
    IF Get(plugin.config, "crypto_enabled", TRUE)
    THEN Configured("crypto_crypto_symbols")
    ELSE <<>>

\* Every quote of the collections was fetched at the same time
OneRefresh(stocks, crypto) ==
    \A i \in DOMAIN stocks, j \in DOMAIN crypto :
        stocks[i].data.last_updated = crypto[j].data.last_updated

\* The two collections are what no refresh or one whole refresh leaves
Snapshot(stocks, crypto) ==
    \/ stocks = <<>> /\ crypto = <<>>
    \/ /\ Len(stocks) = Len(Configured("stocks_symbols"))
       /\ Len(crypto) = Len(CryptoTracked)
       /\ OneRefresh(stocks, crypto)

UpdateDone == op = "update" /\ plugin.pc = "idle"

\* C23: once update() has completed with stock symbols configured,
\* stock_data has one quote per configured stock symbol and crypto_data one
\* per tracked crypto symbol, last_update is the time of the update, and
\* display() shows the ticker
C23_UpdateFillsData ==
    (UpdateDone /\ Configured("stocks_symbols") # <<>>) =>
        /\ Len(plugin.stock_data) = Len(Configured("stocks_symbols"))
        /\ Len(plugin.crypto_data) = Len(CryptoTracked)
        /\ plugin.last_update = plugin.now
        /\ display(plugin).outcome # NameError
        /\ display(plugin).outcome.text = "ticker"


----------------------------------------------------------------------------
(* The static presenter: claim C22, under SpecStatic *)

\* The entity shown in the dwell period that began last
LastShown == presenter.entities[((presenter.dwells - 1) % Len(presenter.entities)) + 1]

\* C22: each dwell period shows exactly one entity, the one at the index,
\* drawn standalone; the index advances by one modulo the entity count; and
\* the cycle is complete exactly when as many dwell periods have begun
\* since the reset as there are entities, so that each was shown once
C22_StaticCycle ==
    presenter # NoPresenter =>
        /\ presenter.index \in 0..(Len(presenter.entities) - 1)
        /\ presenter.index = presenter.dwells % Len(presenter.entities)
        /\ presenter.cycle_complete <=> presenter.dwells >= Len(presenter.entities)
        /\ presenter.cycle_complete <=> presenter.shown = 0..(Len(presenter.entities) - 1)
        /\ op = "present_next" =>
              static_image = create_static_display(LastShown.symbol, LastShown.data,
                                                   args.found)

\* The second of two entities has just been shown: the cycle is complete
C22_Witness ==
    /\ op = "present_next"
    /\ Len(presenter.entities) = 2
    /\ presenter.dwells = 2
    /\ presenter.index = 0
    /\ presenter.cycle_complete
    /\ static_image.symbol = presenter.entities[2].symbol


----------------------------------------------------------------------------
(* The configuration manager: claims C26 to C30, under SpecConfig *)

\* C26: after construction and after every reload_config and
\* set_scroll_speed, whatever the configuration and the speed given,
\* 0.5 <= scroll_speed <= 5.0
C26_ScrollSpeedInRange ==
    5 <= config_manager.scroll_speed /\ config_manager.scroll_speed <= 50

\* A speed above the range was set, and clamped, on a manager whose
\* configuration, in the nested shape, has a speed below the range
C26_Witness ==
    /\ op = "set_scroll_speed"
    /\ args.numeric
    /\ args.speed > 50
    /\ config_manager.scroll_speed = 50
    /\ NestedDisplay(config_manager.plugin_config)
    /\ ~LoadRaises(config_manager.plugin_config)
    /\ Get(config_manager.plugin_config.display, "scroll_speed", 10) < 5


\* The configuration was loaded last, by the constructor or by reload_config
JustLoaded == op \in {"init", "reload_config"}

\* The attributes the try block of _load_config assigns
LoaderAssigned ==
    {"enabled", "display_duration", "update_interval", "scroll_speed", "scroll_delay",
     "toggle_chart", "dynamic_duration", "min_duration", "max_duration",
     "duration_buffer", "enable_scrolling", "stocks_enabled", "stock_symbols",
     "stock_display_format", "crypto_symbols", "crypto_display_format",
     "crypto_update_interval", "text_color", "positive_color", "negative_color",
     "crypto_text_color", "crypto_positive_color", "crypto_negative_color",
     "api_config", "timeout", "retry_count", "rate_limit_delay"}

\* The value _set_defaults gives an attribute of a manager
DefaultOf(attribute) ==
    _set_defaults(_init_attributes(config_manager.plugin_config))[attribute]

\* C27: when a statement of the loader raises, the constructor and
\* reload_config return normally and every attribute the loader assigns has
\* its default value, none the value read before the failure
C27_AllOrNothing ==
    (JustLoaded /\ LoadRaises(config_manager.plugin_config)) =>
        /\ result = NoResult
        /\ \A attribute \in LoaderAssigned :
              config_manager[attribute] = DefaultOf(attribute)

\* reload_config failed at the colours, after the display settings and the
\* symbols of the configuration had been assigned
C27_Witness ==
    /\ op = "reload_config"
    /\ ColorsRaises(config_manager.plugin_config)
    /\ config_manager.plugin_config.scroll_delay # DefaultOf("scroll_delay")
    /\ config_manager.plugin_config.stocks.symbols # DefaultOf("stock_symbols")
    /\ config_manager.scroll_delay = DefaultOf("scroll_delay")
    /\ config_manager.stock_symbols = DefaultOf("stock_symbols")

\* The seven display settings
DisplaySettings == {"scroll_speed", "scroll_delay", "toggle_chart", "dynamic_duration",
                    "min_duration", "max_duration", "duration_buffer"}

\* The one shape of a configuration: its 'display' section if that is there
\* and not empty, else its top level
OneShape(plugin_config) ==
    IF "display" \in DOMAIN plugin_config /\ DOMAIN plugin_config.display # {}
    THEN plugin_config.display
    ELSE plugin_config

\* The default of a display setting that its shape does not have
ShapeDefault(setting, plugin_config) ==
    IF setting = "toggle_chart"
    THEN OneShape(plugin_config) # plugin_config
    ELSE _init_attributes(plugin_config)[setting]

\* The value of a display setting in the one shape: scroll_speed clamped
FromOneShape(setting, plugin_config) ==
    LET value == Get(OneShape(plugin_config), setting,
                     ShapeDefault(setting, plugin_config))
    IN  IF setting = "scroll_speed" THEN Clamp(value, 5, 50) ELSE value

\* C28: after a load, each of the seven display settings has the value of
\* one and the same shape: of the 'display' section if it is there and not
\* empty, whatever the top level says, else of the top level
C28_OneShape ==
    (JustLoaded /\ ~LoadRaises(config_manager.plugin_config)) =>
        \A setting \in DisplaySettings :
            config_manager[setting] = FromOneShape(setting, config_manager.plugin_config)

\* A configuration with a 'display' section and other values of the same
\* settings at the top level was loaded
C28_Witness ==
    /\ op = "reload_config"
    /\ ~LoadRaises(config_manager.plugin_config)
    /\ OneShape(config_manager.plugin_config) # config_manager.plugin_config
    /\ config_manager.plugin_config.max_duration # DefaultOf("max_duration")
    /\ "max_duration" \notin DOMAIN config_manager.plugin_config.display
    /\ config_manager.max_duration = DefaultOf("max_duration")
    /\ config_manager.min_duration = config_manager.plugin_config.display.min_duration
    /\ config_manager.min_duration # config_manager.plugin_config.min_duration

\* C29: the colours the configuration manager resolved are those the
\* renderer resolves from the same configuration, for the symbol and price
\* text and the two delta colours, of stocks and of crypto
C29_SameColours ==
    (JustLoaded /\ ~LoadRaises(config_manager.plugin_config)) =>
        LET renderer == RendererColors(config_manager.plugin_config)
        IN  /\ config_manager.text_color = renderer.symbol_text_color
            /\ config_manager.text_color = renderer.price_text_color
            /\ config_manager.positive_color = renderer.positive_color
            /\ config_manager.negative_color = renderer.negative_color
            /\ config_manager.crypto_text_color = renderer.crypto_symbol_text_color
            /\ config_manager.crypto_text_color = renderer.crypto_price_text_color
            /\ config_manager.crypto_positive_color = renderer.crypto_positive_color
            /\ config_manager.crypto_negative_color = renderer.crypto_negative_color

\* C30: after construction and after every reload_config and
\* set_scroll_delay, 0.001 <= scroll_delay <= 1.0
C30_ScrollDelayInRange ==
    1 <= config_manager.scroll_delay /\ config_manager.scroll_delay <= 1000


----------------------------------------------------------------------------
(* The data fetcher: claims C24 and C25, under SpecFetcher *)

\* The symbol of call i of fetch_all_data, and whether it is a crypto symbol
CallSymbol(i) ==
    IF i > Len(data_fetcher.stock_symbols)
    THEN data_fetcher.crypto_symbols[i - Len(data_fetcher.stock_symbols)]
    ELSE data_fetcher.stock_symbols[i]

\* What call i of the last fetch_all_data came to
Outcome(i) ==
    Fetched(data_fetcher, CallSymbol(i), i > Len(data_fetcher.stock_symbols), args[i])

\* Call i returned data
Succeeded(i) == ~IsRaised(Outcome(i)) /\ Outcome(i) # None

\* The calls for a symbol that returned data
Successes(symbol) ==
    {i \in 1..NumCalls(data_fetcher) : CallSymbol(i) = symbol /\ Succeeded(i)}

\* C24: fetch_all_data returns a mapping whatever its calls come to, raised
\* exceptions included: its keys are the configured symbols with a call that
\* returned data, each once, in the order of these calls (stocks, then
\* crypto), each with the data its call returned; calls that fail leave the
\* other entries alone, and if all fail the mapping is empty
C24_FetchAllData ==
    op = "fetch_all_data" =>
        LET all_data == result[1]
        IN  /\ {all_data[j].symbol : j \in DOMAIN all_data}
                  = {CallSymbol(i) : i \in {k \in 1..NumCalls(data_fetcher) : Succeeded(k)}}
            /\ \A j, k \in DOMAIN all_data :
                  j < k => Min(Successes(all_data[j].symbol))
                              < Min(Successes(all_data[k].symbol))
            /\ \A j \in DOMAIN all_data :
                  all_data[j].data = Outcome(Max(Successes(all_data[j].symbol)))
            /\ (\A i \in 1..NumCalls(data_fetcher) : ~Succeeded(i)) => all_data = <<>>

\* Of three calls the first raised, the second returned data and the third
\* returned None: the mapping has the second symbol alone
C24_Witness ==
    /\ op = "fetch_all_data"
    /\ NumCalls(data_fetcher) = 3
    /\ args[1].raises
    /\ Succeeded(2)
    /\ ~args[3].raises /\ Outcome(3) = None
    /\ Len(result[1]) = 1
    /\ result[1][1].symbol = CallSymbol(2)
    /\ "price" \in DOMAIN result[1][1].data
    /\ result[1][1].data.price = 15026

\* The last single fetch went to the API itself
WentDirect ==
    \/ data_fetcher.background_service # "submit"
    \/ args.env.submit \in {"raise", "run"}

\* previousClose of the response of the last single fetch, 0 if it has none
PreviousClose ==
    Get(Get(args.env.response.body.chart.result[1], "meta", <<>>), "previousClose", 0)

\* The response of the last single fetch has a chart result
HasChartResult ==
    /\ "body" \in DOMAIN args.env.response
    /\ "chart" \in DOMAIN args.env.response.body
    /\ "result" \in DOMAIN args.env.response.body.chart
    /\ args.env.response.body.chart.result # <<>>

\* C25: fetch_stock_data returns and never raises; when submit of the
\* background service raises, it returns what the direct fetch returns; when
\* the direct fetch meets an exception it returns None; and when
\* previousClose is not positive the quote has change_percent 0
C25_FetchStockData ==
    op = "fetch_stock_data" =>
        /\ ~IsRaised(result[1])
        /\ (data_fetcher.background_service = "submit" /\ args.env.submit = "raise") =>
              result[1] = _fetch_direct(args.symbol,
                                        DisplaySymbol(args.symbol, args.is_crypto),
                                        args.is_crypto, args.env.response,
                                        args.env.roundLow)
        /\ (WentDirect /\ "raises" \in DOMAIN args.env.response) => result[1] = None
        /\ (WentDirect /\ HasChartResult) =>
              /\ result[1] # None
              /\ PreviousClose <= 0 => result[1].change_percent = 0

\* submit raised, the direct fetch got a quote without a previous close
C25_Witness ==
    /\ op = "fetch_stock_data"
    /\ data_fetcher.background_service = "submit"
    /\ args.env.submit = "raise"
    /\ args.env.response = NoPreviousClose
    /\ result[1].price = 4155
    /\ result[1].change = 4155
    /\ result[1].change_percent = 0

====
